---- MODULE Spec2Model ----
(***************************************************************************)
(* LJCourses: the enrollment / lesson-progress domain of the course        *)
(* platform.  The relational store (users, courses, lessons, enrollments,  *)
(* lesson_progress) is the state; every HTTP handler of the JSON API       *)
(* (app/app.py), of the blueprint app (app/routes/*.py) and of the legacy  *)
(* single-file app (main.py) is an action or, where it issues several      *)
(* statements against the store, a sequence of actions of one request.     *)
(***************************************************************************)
EXTENDS Integers, Sequences, FiniteSets, TLC

VARIABLES
    users,        \* rows of table users
    courses,      \* ids of the rows of table courses
    lessons,      \* rows of table lessons
    enrollments,  \* rows of table enrollments
    progress,     \* rows of table lesson_progress
    nextId,       \* per table: number of primary keys handed out so far (uuid4 never repeats)
    now,          \* the wall clock read by datetime.now()
    req,          \* per worker: the request it is serving and its position in the handler
    resp,         \* per worker: the response of the request it served last
    arg,          \* inputs of the progress computation (completed_count, total_lessons)
    out,          \* its result
    files,        \* names of the files in the upload folder static/uploads/profile_photos
    categories,   \* rows of table categories
    columns       \* per id in courses: the other columns of that row of table courses

vars == <<users, courses, lessons, enrollments, progress, nextId, now, req, resp,
          arg, out, files, categories, columns>>

\* the catalog beside the ids of the courses
catalog == <<categories, columns>>

\* what the enrollment, progress and lesson handlers never write
aux == <<arg, out, files, catalog>>

store == <<users, courses, lessons, enrollments, progress, nextId>>

----------------------------------------------------------------------------
(* Bounds of the model *)

\* largest value of the clock
MaxTime == 2
\* rows ever inserted into table enrollments in one behaviour
MaxEnrollments == 3
\* rows ever inserted into table lesson_progress in one behaviour
MaxProgress == 3
\* largest course size for which the progress percentage is computed as a function
MaxLessons == 50
\* largest course size whose lesson page is looked up instead of recomputed
MaxCourse == 3
\* rows ever inserted into table lessons in one behaviour
MaxLessonRows == 3
\* len(password) < 8 of validate_password_strength, min_length=8 of PasswordReset
MinPasswordLength == 8
\* rows ever inserted into table users in one behaviour
MaxUsers == 2
\* rows ever inserted into table categories in one behaviour
MaxCategories == 2
\* the ticks of the clock a token lives (ACCESS_TOKEN_EXPIRE_MINUTES, 7 days, of the
\* source): a token of tick t is accepted up to tick t + TokenLife
TokenLife == 1
\* rows ever inserted into table courses by requests in one behaviour
MaxCourses == 2

\* the server's workers: requests in flight at the same time
Workers == {"w1", "w2"}
\* user ids that requests may carry; "s1", "s2" are students, "adm" is an admin
Students == {"s1", "s2"}
Admins == {"adm"}
Instructors == {"ins"}
\* course ids that requests may carry; "c0" never names a row of table courses
CourseIds == {"c1", "c0"}
\* values of a profile text field (full_name, bio, major)
Texts == {"a", "b"}

\* NULL of a nullable column; the clock and the primary keys start after it
Null == 0
\* Python's None in a text field of a request body (JSON null), and NULL of a text column
None == "None"
\* a field that the body of an update request does not set (model_dump(exclude_unset=True))
Unset == "unset"
\* the fields of the body of a catalog request
NoPatch == [name |-> Unset, title |-> Unset, slug |-> Unset, description |-> Unset]

----------------------------------------------------------------------------
(* Python float arithmetic (IEEE-754 binary64, round to nearest even), on   *)
(* bit sequences written most significant bit first.                        *)

MantissaBits == 53

RECURSIVE Pow2(_)
Pow2(e) == IF e = 0 THEN 1 ELSE 2 * Pow2(e - 1)

\* 2^e mod m, by repeated squaring
RECURSIVE Pow2Mod(_, _)
Pow2Mod(e, m) ==
    IF e = 0 THEN 1 % m
    ELSE LET h == Pow2Mod(e \div 2, m)
         IN  (h * h * (IF e % 2 = 1 THEN 2 ELSE 1)) % m

\* the natural number written by a short bit sequence
RECURSIVE BitsNat(_)
BitsNat(bits) ==
    IF bits = << >> THEN 0
    ELSE 2 * BitsNat(SubSeq(bits, 1, Len(bits) - 1)) + bits[Len(bits)]

\* bits without its leading zeros
StripBits(bits) ==
    IF \A i \in 1..Len(bits) : bits[i] = 0 THEN << >>
    ELSE LET f == CHOOSE i \in 1..Len(bits) :
                      bits[i] = 1 /\ \A j \in 1..(i - 1) : bits[j] = 0
         IN  SubSeq(bits, f, Len(bits))

\* bits, widened to n bits by leading zeros
PadBits(bits, n) == [i \in 1..(n - Len(bits)) |-> 0] \o bits

\* bits followed by k zeros: bits * 2^k
ShiftBits(bits, k) == bits \o [i \in 1..k |-> 0]

\* a + b, as bits: the carry into a position is 1 iff some lower position generates
\* one (both bits 1) and every position between propagates it (exactly one bit 1)
AddBits(a, b) ==
    LET n == IF Len(a) >= Len(b) THEN Len(a) ELSE Len(b)
        x == PadBits(a, n)
        y == PadBits(b, n)
        \* position p counts from the least significant bit, 0-based
        X(p) == x[n - p]
        Y(p) == y[n - p]
        carry(p) == IF \E j \in 0..(p - 1) :
                           /\ X(j) = 1 /\ Y(j) = 1
                           /\ \A k \in (j + 1)..(p - 1) : X(k) # Y(k)
                    THEN 1 ELSE 0
    IN  StripBits([i \in 1..(n + 1) |->
                      LET p == n + 1 - i
                      IN  IF p = n THEN carry(n)
                          ELSE (X(p) + Y(p) + carry(p)) % 2])

\* the first cnt bits of the binary fraction rem / den (rem < den), and the
\* remainder left after them
DivBits(rem, den, cnt) ==
    [bits |-> [i \in 1..cnt |->
                  IF 2 * ((rem * Pow2Mod(i - 1, den)) % den) >= den THEN 1 ELSE 0],
     rem  |-> (rem * Pow2Mod(cnt, den)) % den]

\* bits * 100 = ((bits * 16 + bits * 8 + bits) * 4)
Mul100Bits(bits) ==
    ShiftBits(AddBits(ShiftBits(bits, 4), AddBits(ShiftBits(bits, 3), bits)), 2)

\* smallest s with num * 2^s >= den (num > 0)
RECURSIVE NormShift(_, _)
NormShift(num, den) == IF num >= den THEN 0 ELSE 1 + NormShift(2 * num, den)

\* bits (a leading 1, then more) followed by a nonzero tail iff sticky, rounded to
\* MantissaBits bits: [m |-> mantissa, up |-> 1 if the rounding carried into a new
\* top bit (the mantissa is then 1000...0 and the exponent one larger), dropped |->
\* number of low bits removed]
RoundBits(bits, sticky) ==
    IF Len(bits) <= MantissaBits
    THEN [m |-> bits, up |-> 0, dropped |-> 0]
    ELSE LET keep  == SubSeq(bits, 1, MantissaBits)
             guard == bits[MantissaBits + 1]
             rest  == SubSeq(bits, MantissaBits + 2, Len(bits))
             more  == sticky \/ (\E i \in 1..Len(rest) : rest[i] = 1)
             roundUp == guard = 1 /\ (more \/ keep[MantissaBits] = 1)
             inc   == AddBits(keep, <<1>>)
         IN  IF ~roundUp
             THEN [m |-> keep, up |-> 0, dropped |-> Len(bits) - MantissaBits]
             ELSE IF Len(inc) > MantissaBits
                  THEN [m |-> SubSeq(inc, 1, MantissaBits), up |-> 1,
                        dropped |-> Len(bits) - MantissaBits]
                  ELSE [m |-> inc, up |-> 0, dropped |-> Len(bits) - MantissaBits]

\* largest t with den * 2^t <= num (num >= den)
RECURSIVE DownShift(_, _)
DownShift(num, den) == IF num < 2 * den THEN 0 ELSE 1 + DownShift(num, 2 * den)

\* the float num / den for num > 0: mantissa m (MantissaBits bits, leading 1) and
\* the weight of its last bit, value = BitsNat(m) * 2^(-scale)
FloatDiv(num, den) ==
    LET t == IF num > den THEN DownShift(num, den) ELSE 0
        d == den * Pow2(t)
        s == NormShift(num, d)
        \* after the leading 1: the other 52 mantissa bits and the guard bit
        q == DivBits(num * Pow2(s) - d, d, MantissaBits)
        r == RoundBits(<<1>> \o q.bits, q.rem > 0)
    IN  [m |-> r.m, scale |-> s + MantissaBits - 1 - r.up - t]

\* the float f * 100
FloatMul100(f) ==
    LET p == Mul100Bits(f.m)
        r == RoundBits(p, FALSE)
    IN  [m |-> r.m, scale |-> f.scale - r.dropped - r.up]

\* int(f) for a float f >= 0: truncation
FloatInt(f) ==
    IF f.scale <= 0 THEN BitsNat(f.m) * Pow2(-f.scale)
    ELSE IF f.scale >= Len(f.m) THEN 0
    ELSE BitsNat(SubSeq(f.m, 1, Len(f.m) - f.scale))

\* int((completed_count / total_lessons) * 100) if total_lessons > 0 else 0
progress_percent(completed_count, total_lessons) ==
    IF total_lessons > 0
    THEN IF completed_count = 0 THEN 0
         ELSE FloatInt(FloatMul100(FloatDiv(completed_count, total_lessons)))
    ELSE 0

----------------------------------------------------------------------------
(* Rows and requests *)

\* class UserRole
STUDENT == "student"
INSTRUCTOR == "instructor"
ADMIN == "admin"

\* class User: id, role, is_active, password_hash and one profile text field
\* NULL of column profile_image, whose values are a path prefix and a file name
NoPhoto == [prefix |-> "", file |-> [user |-> "", at |-> Null, ext |-> ""]]

\* generate_password_hash(password): the hashes of a password, one for each salt
Salts == {"k1", "k2"}
generate_password_hash(password) == {[password |-> password, salt |-> k] : k \in Salts}

\* the password of the seeded users
SeedPassword == <<"B", "a", "1", "!", "a", "a", "a", "a">>

User(id, role, full_name) ==
    [id |-> id, email |-> id, role |-> role, is_active |-> TRUE, full_name |-> full_name,
     profile_image |-> NoPhoto, last_login |-> Null,
     password_hash |-> [password |-> SeedPassword, salt |-> "k1"]]

\* class Enrollment: a new row, with the column defaults
Enrollment(id, student_id, course_id) ==
    [id |-> id, student_id |-> student_id, course_id |-> course_id,
     enrolled_at |-> now, completed_at |-> Null, last_accessed |-> now]

\* no token: the claims of a request without an Authorization header
NoToken == [sub |-> "", email |-> "", exp |-> Null]

\* a worker that serves no request
Idle == [op |-> "idle", pc |-> "idle", user |-> "", target |-> "", course |-> "",
         lesson |-> Null, token |-> NoToken,
         order |-> 0, enr |-> Null, prog |-> Null, is_completed |-> FALSE, total |-> 0,
         patch |-> NoPatch, new_password |-> <<>>, confirm_password |-> <<>>]

\* no response yet
NoResp == [status |-> 0, of |-> "", detail |-> "", id |-> Null, flag |-> FALSE,
           percent |-> 0, rows |-> <<>>, next |-> Null, token |-> NoToken, req |-> Idle]

\* a handler's answer: the HTTP status, the handler, the error detail ("" on
\* success), the id of the row returned; next is the lesson of next_lesson_url,
\* token the access_token of a login
Response(op, status, detail, id) ==
    [status |-> status, of |-> op, detail |-> detail, id |-> id, flag |-> FALSE,
     percent |-> 0, rows |-> <<>>, next |-> Null, token |-> NoToken, req |-> Idle]

\* worker w answers its request and is free again
Respond(w, r) ==
    /\ resp' = [resp EXCEPT ![w] = r]
    /\ req' = [req EXCEPT ![w] = Idle]

\* worker w takes up a request (its last response is gone) and stands at r.pc
Begin(w, r) ==
    /\ req' = [req EXCEPT ![w] = r]
    /\ resp' = [resp EXCEPT ![w] = NoResp]

\* worker w moves on inside its handler
Goto(w, r) ==
    /\ req' = [req EXCEPT ![w] = r]
    /\ UNCHANGED resp

get_user_by_id(user_id) == {u \in users : u.id = user_id}

\* get_current_user: 0 when the token's user is found and active, else the status
\* of the HTTPException raised
\* get_current_user that trusts the token: the row's is_active is not looked at
get_current_user_unchecked(user_id) ==
    IF get_user_by_id(user_id) = {} THEN 401 ELSE 0

get_current_user(user_id) ==
    IF get_user_by_id(user_id) = {} THEN 401
    ELSE IF \E u \in get_user_by_id(user_id) : ~u.is_active THEN 403
    ELSE 0

\* the detail of the HTTPException that get_current_user raises
credentials_detail(user_id) ==
    IF get_user_by_id(user_id) = {} THEN "User not found" ELSE "Inactive user"

\* db.query(Enrollment).filter(student_id == .., course_id == ..): the rows .first()
\* may return (no ORDER BY: any of them)
enrollments_of(student_id, course_id) ==
    {e \in enrollments : e.student_id = student_id /\ e.course_id = course_id}

get_enrollment_by_id(enrollment_id) == {e \in enrollments : e.id = enrollment_id}

\* the foreign keys of a new enrollments row name existing rows (else IntegrityError)
EnrollmentKeysExist(student_id, course_id) ==
    /\ get_user_by_id(student_id) # {}
    /\ course_id \in courses

----------------------------------------------------------------------------
(* Enrollment ledger: app/services/enrollments.py and its callers *)

AlreadyEnrolled == "Student is already enrolled in this course"
FailedToCreate == "Failed to create enrollment"

\* POST /api/enrollments of the JSON API: get_current_user, then create_enrollment
enroll_in_course(w, u, c) ==
    /\ req[w] = Idle
    /\ UNCHANGED <<store, now, aux>>
    /\ IF get_current_user(u) # 0
       THEN Respond(w, Response("enroll_in_course", get_current_user(u), credentials_detail(u), Null))
       ELSE Begin(w, [Idle EXCEPT !.op = "enroll_in_course", !.pc = "ce_check",
                                  !.user = u, !.course = c])

\* POST /api/enrollments of the blueprint app: session check, course lookup, then
\* create_enrollment
enroll_course(w, u, c) ==
    /\ req[w] = Idle
    /\ UNCHANGED <<store, now, aux>>
    /\ IF c \notin courses
       THEN Respond(w, Response("enroll_course", 404, "Course not found", Null))
       ELSE Begin(w, [Idle EXCEPT !.op = "enroll_course", !.pc = "ce_check",
                                  !.user = u, !.course = c])

\* what the caller of create_enrollment does with its ValueError
create_enrollment_raised(w, detail) ==
    CASE req[w].op = "enroll_in_course" ->
            \* except ValueError: HTTPException(400, detail=str(e))
            Respond(w, [Response("enroll_in_course", 400, detail, Null) EXCEPT
                            !.req = req[w]])
      [] req[w].op = "enroll_course" ->
            \* except ValueError: pass ("Already enrolled is acceptable, just redirect")
            Respond(w, Response("enroll_course", 200, "", Null))
      [] OTHER ->
            \* complete_lesson: except Exception: rollback, 500
            Respond(w, Response(req[w].op, 500, detail, Null))

\* what the caller of create_enrollment does with the row it returns
create_enrollment_returned(w, id) ==
    CASE req[w].op = "enroll_in_course" ->
            Respond(w, [Response("enroll_in_course", 201, "", id) EXCEPT !.req = req[w]])
      [] req[w].op = "enroll_course" ->
            Respond(w, Response("enroll_course", 200, "", id))
      [] OTHER ->
            Goto(w, [req[w] EXCEPT !.pc = "clp_check", !.enr = id])

\* create_enrollment without "Check if already enrolled": no row is ever found
create_enrollment_unchecked(student_id, course_id) == FALSE

\* create_enrollment's pre-check finds a row
create_enrollment_existing(student_id, course_id) ==
    enrollments_of(student_id, course_id) # {}

\* create_enrollment, first statement: "Check if already enrolled"
create_enrollment_check(w) ==
    /\ req[w].pc = "ce_check"
    /\ UNCHANGED <<store, now, aux>>
    /\ IF create_enrollment_existing(req[w].user, req[w].course)
       THEN create_enrollment_raised(w, AlreadyEnrolled)
       ELSE Goto(w, [req[w] EXCEPT !.pc = "ce_insert"])

\* create_enrollment, the try block: db.add, db.commit
create_enrollment_commit(w) ==
    /\ req[w].pc = "ce_insert"
    /\ UNCHANGED <<users, courses, lessons, progress, now, aux>>
    /\ IF ~EnrollmentKeysExist(req[w].user, req[w].course)
       THEN \* IntegrityError: db.rollback(), ValueError
            /\ UNCHANGED <<enrollments, nextId>>
            /\ create_enrollment_raised(w, FailedToCreate)
       ELSE /\ nextId.enrollment < MaxEnrollments
            /\ nextId' = [nextId EXCEPT !.enrollment = @ + 1]
            /\ enrollments' = enrollments \cup
                   {Enrollment(nextId.enrollment + 1, req[w].user, req[w].course)}
            /\ create_enrollment_returned(w, nextId.enrollment + 1)

\* POST /api/enrollments of main.py, up to its own "Check if already enrolled"
main_enroll_course(w, u, c) ==
    /\ req[w] = Idle
    /\ UNCHANGED <<store, now, aux>>
    /\ IF get_user_by_id(u) = {}
       THEN Respond(w, Response("main_enroll_course", 401, "Authentication required", Null))
       ELSE IF c \notin courses
       THEN Respond(w, Response("main_enroll_course", 404, "Course not found", Null))
       ELSE IF enrollments_of(u, c) # {}
       THEN Respond(w, Response("main_enroll_course", 200, "", Null))
       ELSE Begin(w, [Idle EXCEPT !.op = "main_enroll_course", !.pc = "main_insert",
                                  !.user = u, !.course = c])

\* main.py enroll_course: db.add(enrollment), db.commit()
main_enroll_course_commit(w) ==
    /\ req[w].pc = "main_insert"
    /\ req[w].op = "main_enroll_course"
    /\ UNCHANGED <<users, courses, lessons, progress, now, aux>>
    /\ IF ~EnrollmentKeysExist(req[w].user, req[w].course)
       THEN \* except Exception: db.rollback(), 500
            /\ UNCHANGED <<enrollments, nextId>>
            /\ Respond(w, Response("main_enroll_course", 500, "IntegrityError", Null))
       ELSE /\ nextId.enrollment < MaxEnrollments
            /\ nextId' = [nextId EXCEPT !.enrollment = @ + 1]
            /\ enrollments' = enrollments \cup
                   {Enrollment(nextId.enrollment + 1, req[w].user, req[w].course)}
            /\ Respond(w, Response("main_enroll_course", 200, "", nextId.enrollment + 1))

\* db.delete(enrollment) without the cascade: the progress rows stay
delete_enrollment_alone(enrollment_id) ==
    /\ enrollments' = enrollments \ get_enrollment_by_id(enrollment_id)
    /\ UNCHANGED progress

\* delete_enrollment: db.delete(enrollment) with the ORM cascade
\* Enrollment.lesson_progress (cascade='all, delete-orphan')
delete_enrollment(enrollment_id) ==
    /\ enrollments' = enrollments \ get_enrollment_by_id(enrollment_id)
    /\ progress' = {p \in progress : p.enrollment_id # enrollment_id}

\* deleting without the ownership test
unenroll_unguarded(e, current_user) == TRUE

\* the ownership test without "or admin"
unenroll_owner_only(e, current_user) == e.student_id = current_user.id

\* the caller may delete enrollment e: "Only allow student to unenroll themselves
\* or admin"
unenroll_allowed(e, current_user) ==
    ~(e.student_id # current_user.id /\ current_user.role # ADMIN)

\* DELETE /api/enrollments/{enrollment_id}
unenroll_from_course(w, u, enrollment_id) ==
    /\ req[w] = Idle
    /\ UNCHANGED <<users, courses, lessons, nextId, now, aux>>
    /\ LET answer(status, detail) ==
               [Response("unenroll_from_course", status, detail, enrollment_id) EXCEPT
                    !.req = [Idle EXCEPT !.op = "unenroll_from_course", !.user = u,
                                         !.enr = enrollment_id]]
       IN  IF get_current_user(u) # 0
           THEN /\ UNCHANGED <<enrollments, progress>>
                /\ Respond(w, answer(get_current_user(u), credentials_detail(u)))
           ELSE IF get_enrollment_by_id(enrollment_id) = {}
           THEN /\ UNCHANGED <<enrollments, progress>>
                /\ Respond(w, answer(404, "Enrollment not found"))
           ELSE IF \E e \in get_enrollment_by_id(enrollment_id), cu \in get_user_by_id(u) :
                       ~unenroll_allowed(e, cu)
           THEN /\ UNCHANGED <<enrollments, progress>>
                /\ Respond(w, answer(403, "Not authorized to delete this enrollment"))
           ELSE /\ delete_enrollment(enrollment_id)
                /\ Respond(w, answer(204, ""))

----------------------------------------------------------------------------
(* Lessons and lesson progress: app/services/lessons.py, app/services/progress.py *)

\* class Lesson: id, course_id, order
Lesson(id, course_id, order) == [id |-> id, course_id |-> course_id, order |-> order]

\* class LessonProgress: a new row, with the column defaults
LessonProgress(id, enrollment_id, lesson_id, is_completed) ==
    [id |-> id, enrollment_id |-> enrollment_id, lesson_id |-> lesson_id,
     is_completed |-> is_completed, started_at |-> now, completed_at |-> Null,
     last_accessed |-> now]

get_lesson_by_id(lesson_id) == {l \in lessons : l.id = lesson_id}

\* the rows of get_lessons_by_course, before ORDER BY
lessons_of(course_id) == {l \in lessons : l.course_id = course_id}

get_lesson_progress_by_id(progress_id) == {p \in progress : p.id = progress_id}

get_progress_by_enrollment(enrollment_id) ==
    {p \in progress : p.enrollment_id = enrollment_id}

\* create_lesson_progress without its lookup: no row is ever found
no_progress_by_enrollment_and_lesson(enrollment_id, lesson_id) == {}

\* the rows .first() of get_progress_by_enrollment_and_lesson may return
get_progress_by_enrollment_and_lesson(enrollment_id, lesson_id) ==
    {p \in progress : p.enrollment_id = enrollment_id /\ p.lesson_id = lesson_id}

\* the foreign keys of a new lesson_progress row name existing rows
ProgressKeysExist(enrollment_id, lesson_id) ==
    /\ get_enrollment_by_id(enrollment_id) # {}
    /\ get_lesson_by_id(lesson_id) # {}

\* db.query(Lesson).filter(course_id == .., order > ..).order_by(Lesson.order).first():
\* the lessons it may return (several when orders tie), {} for None
next_lessons(course_id, order) ==
    {l \in lessons_of(course_id) :
        /\ l.order > order
        /\ \A m \in lessons_of(course_id) : m.order > order => l.order <= m.order}

\* the ids next_lesson.id may have; Null stands for next_lesson = None
next_lesson_ids(course_id, order) ==
    IF next_lessons(course_id, order) = {}
    THEN {Null}
    ELSE {l.id : l \in next_lessons(course_id, order)}

\* db.query(Lesson).filter(course_id == ..).order_by(Lesson.order).first(): the lessons
\* it may return, {} for None
first_lessons(course_id) ==
    {l \in lessons_of(course_id) : \A m \in lessons_of(course_id) : l.order <= m.order}

\* progress_map = {str(p.lesson_id): p for p in progress_records}: one row per
\* lesson id (with several rows for a lesson, the one the query lists last), and
\* completed_count = sum(1 for p in progress_map.values() if p.is_completed)
completed_counts(enrollment_id) ==
    LET rows == get_progress_by_enrollment(enrollment_id)
        ids  == {p.lesson_id : p \in rows}
        maps == {m \in [ids -> rows] : \A l \in ids : m[l].lesson_id = l}
    IN  {Cardinality({l \in ids : m[l].is_completed}) : m \in maps}

\* update_lesson_progress without "and not progress.completed_at": every completing
\* call stamps completed_at
restamped_progress(p, is_completed) ==
    [p EXCEPT !.is_completed = is_completed,
              !.last_accessed = now,
              !.completed_at = IF is_completed THEN now ELSE @]

\* update_lesson_progress applied to the row it found
updated_progress(p, is_completed) ==
    [p EXCEPT !.is_completed = is_completed,
              !.last_accessed = now,
              !.completed_at = IF is_completed /\ p.completed_at = Null THEN now ELSE @]

\* update_lesson_progress(db, progress_id, is_completed); a missing row returns None
update_lesson_progress(progress_id, is_completed) ==
    progress' = {IF p.id = progress_id THEN updated_progress(p, is_completed) ELSE p :
                     p \in progress}

\* what the caller of create_lesson_progress does with the row it returns
create_lesson_progress_returned(w, id) ==
    CASE req[w].op = "start_lesson" ->
            Respond(w, Response("start_lesson", 201, "", id))
      [] req[w].op = "lesson" ->
            Goto(w, [req[w] EXCEPT !.pc = "render", !.prog = id])
      [] OTHER ->
            \* complete_lesson: update_lesson_progress(db, progress.id, is_completed=True)
            \* is next
            Goto(w, [req[w] EXCEPT !.pc = "ulp", !.prog = id, !.is_completed = TRUE])

\* what the caller of create_lesson_progress does with its ValueError
create_lesson_progress_raised(w) ==
    CASE req[w].op = "start_lesson" ->
            Respond(w, Response("start_lesson", 400, "Failed to create lesson progress", Null))
      [] OTHER ->
            Respond(w, Response(req[w].op, 500, "Failed to create lesson progress", Null))

\* create_lesson_progress, first statement: "Check if progress already exists"
create_lesson_progress_check(w) ==
    /\ req[w].pc = "clp_check"
    /\ UNCHANGED <<store, now, aux>>
    /\ IF get_progress_by_enrollment_and_lesson(req[w].enr, req[w].lesson) # {}
       THEN \E p \in get_progress_by_enrollment_and_lesson(req[w].enr, req[w].lesson) :
                create_lesson_progress_returned(w, p.id)
       ELSE Goto(w, [req[w] EXCEPT !.pc = "clp_insert"])

\* create_lesson_progress, the try block: db.add, db.commit
create_lesson_progress_commit(w) ==
    /\ req[w].pc = "clp_insert"
    /\ UNCHANGED <<users, courses, lessons, enrollments, now, aux>>
    /\ IF ~ProgressKeysExist(req[w].enr, req[w].lesson)
       THEN /\ UNCHANGED <<progress, nextId>>
            /\ create_lesson_progress_raised(w)
       ELSE /\ nextId.progress < MaxProgress
            /\ nextId' = [nextId EXCEPT !.progress = @ + 1]
            /\ progress' = progress \cup
                   {LessonProgress(nextId.progress + 1, req[w].enr, req[w].lesson, FALSE)}
            /\ create_lesson_progress_returned(w, nextId.progress + 1)

\* POST /api/lesson-progress, up to create_lesson_progress
start_lesson(w, u, enrollment_id, lesson_id) ==
    /\ req[w] = Idle
    /\ UNCHANGED <<store, now, aux>>
    /\ IF get_current_user(u) # 0
       THEN Respond(w, Response("start_lesson", get_current_user(u), credentials_detail(u), Null))
       ELSE IF get_enrollment_by_id(enrollment_id) = {}
       THEN Respond(w, Response("start_lesson", 404, "Enrollment not found", Null))
       ELSE IF \E e \in get_enrollment_by_id(enrollment_id) : e.student_id # u
       THEN Respond(w, Response("start_lesson", 403,
                                "Not authorized to create progress for this enrollment", Null))
       ELSE Begin(w, [Idle EXCEPT !.op = "start_lesson", !.pc = "clp_check", !.user = u,
                                  !.enr = enrollment_id, !.lesson = lesson_id])

\* PUT /api/lesson-progress/{progress_id} with body is_completed, up to
\* update_lesson_progress
update_lesson_progress_endpoint(w, u, progress_id, is_completed) ==
    /\ req[w] = Idle
    /\ UNCHANGED <<store, now, aux>>
    /\ LET op == "update_lesson_progress_endpoint"
       IN  IF get_current_user(u) # 0
           THEN Respond(w, Response(op, get_current_user(u), credentials_detail(u), progress_id))
           ELSE IF get_lesson_progress_by_id(progress_id) = {}
           THEN Respond(w, Response(op, 404, "Lesson progress not found", progress_id))
           ELSE IF \E p \in get_lesson_progress_by_id(progress_id) :
                       \E e \in get_enrollment_by_id(p.enrollment_id) : e.student_id # u
           THEN Respond(w, Response(op, 403, "Not authorized to update this progress",
                                    progress_id))
           ELSE \* is_completed = progress_data.is_completed if ... is not None else False
                Begin(w, [Idle EXCEPT !.op = op, !.pc = "ulp", !.user = u,
                                      !.prog = progress_id, !.is_completed = is_completed])

\* update_lesson_progress as called by the PUT endpoint and by routes complete_lesson,
\* and what the caller does next
update_lesson_progress_call(w) ==
    /\ req[w].pc = "ulp"
    /\ UNCHANGED <<users, courses, lessons, enrollments, nextId, now, aux>>
    /\ update_lesson_progress(req[w].prog, req[w].is_completed)
    /\ IF req[w].op = "update_lesson_progress_endpoint"
       THEN IF get_lesson_progress_by_id(req[w].prog) = {}
            THEN Respond(w, Response(req[w].op, 404, "Lesson progress not found",
                                     req[w].prog))
            ELSE Respond(w, [Response(req[w].op, 200, "", req[w].prog) EXCEPT
                                 !.flag = req[w].is_completed, !.req = req[w]])
       ELSE \* complete_lesson goes on to "Check course completion"
            Goto(w, [req[w] EXCEPT !.pc = "cl_finish"])

\* progress_percent for the small courses, computed once
progress_percents ==
    [n \in 0..MaxCourse |-> [k \in 0..n |-> progress_percent(k, n)]]

\* the page of the lesson view: progress_percent and completed_count
lesson_page(w, r, completed_count, total_lessons) ==
    Respond(w, [Response(r.op, 200, "", completed_count) EXCEPT
                    !.percent = IF total_lessons <= MaxCourse
                                   /\ completed_count <= total_lessons
                                THEN progress_percents[total_lessons][completed_count]
                                ELSE progress_percent(completed_count, total_lessons),
                    !.req = [r EXCEPT !.total = total_lessons]])

\* GET /lesson/<lesson_id> of the blueprint app, up to create_lesson_progress
lesson(w, u, lesson_id) ==
    /\ req[w] = Idle
    /\ UNCHANGED <<users, courses, lessons, progress, nextId, now, aux>>
    /\ IF get_lesson_by_id(lesson_id) = {}
       THEN \* render_template('lesson.html', lesson=None, ...)
            /\ UNCHANGED enrollments
            /\ Respond(w, Response("lesson", 200, "no lesson", Null))
       ELSE \E l \in get_lesson_by_id(lesson_id) :
            LET total_lessons == Cardinality(lessons_of(l.course_id))
                r == [Idle EXCEPT !.op = "lesson", !.user = u, !.course = l.course_id,
                                  !.lesson = lesson_id, !.total = total_lessons]
            IN  IF enrollments_of(u, l.course_id) = {}
                THEN \* progress_map = {}
                     /\ UNCHANGED enrollments
                     /\ lesson_page(w, r, 0, total_lessons)
                ELSE \E e \in enrollments_of(u, l.course_id) :
                     \* "Update last accessed"
                     /\ enrollments' = (enrollments \ {e}) \cup
                                           {[e EXCEPT !.last_accessed = now]}
                     /\ IF get_progress_by_enrollment_and_lesson(e.id, lesson_id) # {}
                        THEN \E c \in completed_counts(e.id) :
                                 lesson_page(w, [r EXCEPT !.enr = e.id], c, total_lessons)
                        ELSE \* "Start tracking this lesson if not already"
                             Begin(w, [r EXCEPT !.pc = "clp_check", !.enr = e.id])

\* lesson(), after create_lesson_progress: "Refresh map", then the page
lesson_render(w) ==
    /\ req[w].pc = "render"
    /\ UNCHANGED <<store, now, aux>>
    /\ \E c \in completed_counts(req[w].enr) : lesson_page(w, req[w], c, req[w].total)

\* GET /lesson/<lesson_id> of main.py: reads only
main_lesson(w, u, lesson_id) ==
    /\ req[w] = Idle
    /\ UNCHANGED <<store, now, aux>>
    /\ IF get_user_by_id(u) = {}
       THEN Respond(w, Response("main_lesson", 302, "student_login", Null))
       ELSE IF get_lesson_by_id(lesson_id) = {}
       THEN Respond(w, Response("main_lesson", 200, "no lesson", Null))
       ELSE \E l \in get_lesson_by_id(lesson_id) :
            LET total_lessons == Cardinality(lessons_of(l.course_id))
                r == [Idle EXCEPT !.op = "main_lesson", !.user = u, !.course = l.course_id,
                                  !.lesson = lesson_id]
            IN  IF enrollments_of(u, l.course_id) = {}
                THEN lesson_page(w, r, 0, total_lessons)
                ELSE \E e \in enrollments_of(u, l.course_id) :
                     \E c \in completed_counts(e.id) :
                         lesson_page(w, [r EXCEPT !.enr = e.id], c, total_lessons)

----------------------------------------------------------------------------
(* Lesson management: app/services/lessons.py and the /api/lessons endpoints *)

\* the lists holding every row of S once
orderings(S) ==
    {f \in [1..Cardinality(S) -> S] : \A i, j \in 1..Cardinality(S) : i # j => f[i] # f[j]}

\* the query of get_lessons_by_course without order_by: rows in any order
lessons_unordered(course_id) == orderings(lessons_of(course_id))

\* get_lessons_by_course: the lists ... .order_by(Lesson.order).all() may return
\* (rows of equal order come in any order)
get_lessons_by_course(course_id) ==
    {f \in orderings(lessons_of(course_id)) :
        \A i \in 1..(Len(f) - 1) : f[i].order <= f[i + 1].order}

\* answer r, with the caller u of the request it answers
by_caller(u, r) == [r EXCEPT !.req = [Idle EXCEPT !.op = r.of, !.user = u]]

\* the staff check of the lesson endpoints
lesson_staff(user_id) ==
    \E u \in get_user_by_id(user_id) : u.role \in {INSTRUCTOR, ADMIN}

\* GET /api/courses/{course_id}/lessons (public)
get_course_lessons(w, c) ==
    /\ req[w] = Idle
    /\ UNCHANGED <<store, now, aux>>
    /\ \E rows \in get_lessons_by_course(c) :
           Respond(w, [Response("get_course_lessons", 200, "", Null) EXCEPT
                           !.rows = rows,
                           !.req = [Idle EXCEPT !.op = "get_course_lessons", !.course = c]])

\* POST /api/lessons with create_lesson
create_lesson_endpoint(w, u, c, order) ==
    /\ req[w] = Idle
    /\ UNCHANGED <<users, courses, enrollments, progress, now, aux>>
    /\ LET answer(status, detail, id) ==
               by_caller(u, Response("create_lesson_endpoint", status, detail, id))
       IN  IF get_current_user(u) # 0
           THEN /\ UNCHANGED <<lessons, nextId>>
                /\ Respond(w, answer(get_current_user(u), credentials_detail(u), Null))
           ELSE IF ~lesson_staff(u)
           THEN /\ UNCHANGED <<lessons, nextId>>
                /\ Respond(w, answer(403, "Only instructors and admins can create lessons",
                                     Null))
           ELSE IF c \notin courses
           THEN \* IntegrityError on lessons.course_id: ValueError, 400
                /\ UNCHANGED <<lessons, nextId>>
                /\ Respond(w, answer(400, "Failed to create lesson", Null))
           ELSE /\ nextId.lesson < MaxLessonRows
                /\ nextId' = [nextId EXCEPT !.lesson = @ + 1]
                /\ lessons' = lessons \cup {Lesson(nextId.lesson + 1, c, order)}
                /\ Respond(w, answer(201, "", nextId.lesson + 1))

\* update_lesson: setattr for the fields given ("value is not None")
update_lesson(lesson_id, order) ==
    lessons' = {IF l.id = lesson_id /\ order # Null THEN [l EXCEPT !.order = order] ELSE l :
                    l \in lessons}

\* PUT /api/lessons/{lesson_id}; order = Null: the body does not set it
update_lesson_endpoint(w, u, lesson_id, order) ==
    /\ req[w] = Idle
    /\ UNCHANGED <<users, courses, enrollments, progress, nextId, now, aux>>
    /\ LET answer(status, detail) ==
               [by_caller(u, Response("update_lesson_endpoint", status, detail, lesson_id))
                    EXCEPT !.req.lesson = lesson_id, !.req.order = order]
       IN  IF get_current_user(u) # 0
           THEN /\ UNCHANGED lessons
                /\ Respond(w, answer(get_current_user(u), credentials_detail(u)))
           ELSE IF ~lesson_staff(u)
           THEN /\ UNCHANGED lessons
                /\ Respond(w, answer(403, "Only instructors and admins can update lessons"))
           ELSE IF get_lesson_by_id(lesson_id) = {}
           THEN /\ UNCHANGED lessons
                /\ Respond(w, answer(404, "Lesson not found"))
           ELSE /\ update_lesson(lesson_id, order)
                /\ Respond(w, answer(200, ""))

\* delete_lesson: db.delete(lesson) with the ORM cascade Lesson.lesson_progress
delete_lesson(lesson_id) ==
    /\ lessons' = lessons \ get_lesson_by_id(lesson_id)
    /\ progress' = {p \in progress : p.lesson_id # lesson_id}

\* DELETE /api/lessons/{lesson_id}
delete_lesson_endpoint(w, u, lesson_id) ==
    /\ req[w] = Idle
    /\ UNCHANGED <<users, courses, enrollments, nextId, now, aux>>
    /\ LET answer(status, detail) ==
               by_caller(u, Response("delete_lesson_endpoint", status, detail, lesson_id))
       IN  IF get_current_user(u) # 0
           THEN /\ UNCHANGED <<lessons, progress>>
                /\ Respond(w, answer(get_current_user(u), credentials_detail(u)))
           ELSE IF ~lesson_staff(u)
           THEN /\ UNCHANGED <<lessons, progress>>
                /\ Respond(w, answer(403, "Only instructors and admins can delete lessons"))
           ELSE IF get_lesson_by_id(lesson_id) = {}
           THEN /\ UNCHANGED <<lessons, progress>>
                /\ Respond(w, answer(404, "Lesson not found"))
           ELSE /\ delete_lesson(lesson_id)
                /\ Respond(w, answer(204, ""))

----------------------------------------------------------------------------
(* The catalog: app/services/categories.py, app/services/courses.py and their *)
(* endpoints of the JSON API                                                  *)

\* class Category: id, name, slug
Category(id, name, slug) == [id |-> id, name |-> name, slug |-> slug]

\* class Course: the columns of a new row beside its id, with the column defaults
Course(title, slug, instructor_id, category_id) ==
    [title |-> title, slug |-> slug, description |-> None,
     instructor_id |-> instructor_id, category_id |-> category_id, updated_at |-> now]

\* primary keys of the rows that requests insert into table courses, in the order
\* they are handed out
NewCourseIds == <<"n1", "n2", "n3", "n4">>

get_category_by_id(category_id) == {c \in categories : c.id = category_id}

\* a request on the catalog of caller u, as logged in the answer
catalog_request(op, u, id, patch) ==
    [Idle EXCEPT !.op = op, !.user = u, !.target = id, !.patch = patch]

\* the admin check of the category endpoints
category_staff(current_user) == current_user.role = ADMIN

\* the staff check of the course endpoints
course_staff(current_user) == current_user.role \in {INSTRUCTOR, ADMIN}

\* the value of a column after the setattr loop of an update: "value is not None"
\* skips a field set to None like a field that is not set
patched(old, value) == IF value \in {Unset, None} THEN old ELSE value

\* the endpoint's answer r with the status and the detail of the service's outcome
answered(r, status, detail) == [r EXCEPT !.status = status, !.detail = detail]

\* the commit of a row of table categories fails on the unique indexes of name and slug
category_conflict(row) ==
    \E c \in categories : c.id # row.id /\ (c.name = row.name \/ c.slug = row.slug)

\* create_category with the endpoint's answer r on top: IntegrityError is rolled back and
\* raised as ValueError, which the endpoint answers with 400
create_category(w, r, name, slug) ==
    LET category == Category(nextId.category + 1, name, slug)
    IN  IF category_conflict(category)
        THEN /\ UNCHANGED <<categories, nextId>>
             /\ Respond(w, answered(r, 400, "Category with this name or slug already exists"))
        ELSE /\ nextId.category < MaxCategories
             /\ nextId' = [nextId EXCEPT !.category = @ + 1]
             /\ categories' = categories \cup {category}
             /\ Respond(w, answered(r, 201, ""))

\* POST /api/categories
create_category_endpoint(w, u, name, slug) ==
    /\ req[w] = Idle
    /\ UNCHANGED <<users, courses, lessons, enrollments, progress, now, arg, out, files,
                   columns>>
    /\ LET patch == [NoPatch EXCEPT !.name = name, !.slug = slug]
           answer(status, detail) ==
               [Response("create_category_endpoint", status, detail, Null) EXCEPT
                    !.req = catalog_request("create_category_endpoint", u, "", patch)]
       IN  IF get_current_user(u) # 0
           THEN /\ UNCHANGED <<categories, nextId>>
                /\ Respond(w, answer(get_current_user(u), credentials_detail(u)))
           ELSE IF \E cu \in get_user_by_id(u) : ~category_staff(cu)
           THEN /\ UNCHANGED <<categories, nextId>>
                /\ Respond(w, answer(403, "Only admins can create categories"))
           ELSE create_category(w, answer(0, ""), name, slug)

\* update_category with the endpoint's answer r on top
update_category(w, r, category_id, patch) ==
    IF get_category_by_id(category_id) = {}
    THEN /\ UNCHANGED categories
         /\ Respond(w, answered(r, 404, "Category not found"))
    ELSE \E category \in get_category_by_id(category_id) :
             LET row == [category EXCEPT !.name = patched(@, patch.name),
                                         !.slug = patched(@, patch.slug)]
             IN  IF category_conflict(row)
                 THEN /\ UNCHANGED categories
                      /\ Respond(w, answered(r, 400, "Category with this slug already exists"))
                 ELSE /\ categories' = (categories \ {category}) \cup {row}
                      /\ Respond(w, answered(r, 200, ""))

\* PUT /api/categories/{category_id}
update_category_endpoint(w, u, category_id, name, slug) ==
    /\ req[w] = Idle
    /\ UNCHANGED <<store, now, arg, out, files, columns>>
    /\ LET patch == [NoPatch EXCEPT !.name = name, !.slug = slug]
           answer(status, detail) ==
               [Response("update_category_endpoint", status, detail, category_id) EXCEPT
                    !.req = catalog_request("update_category_endpoint", u, "", patch)]
       IN  IF get_current_user(u) # 0
           THEN /\ UNCHANGED categories
                /\ Respond(w, answer(get_current_user(u), credentials_detail(u)))
           ELSE IF \E cu \in get_user_by_id(u) : ~category_staff(cu)
           THEN /\ UNCHANGED categories
                /\ Respond(w, answer(403, "Only admins can update categories"))
           ELSE update_category(w, answer(0, ""), category_id, patch)

\* delete_category: db.delete(category); the courses of the category (relationship
\* Category.courses, no cascade) are kept with category_id NULL
delete_category(category_id) ==
    /\ categories' = categories \ get_category_by_id(category_id)
    /\ columns' = [c \in courses |->
                       IF columns[c].category_id = category_id
                       THEN [columns[c] EXCEPT !.category_id = Null] ELSE columns[c]]

\* DELETE /api/categories/{category_id}
delete_category_endpoint(w, u, category_id) ==
    /\ req[w] = Idle
    /\ UNCHANGED <<store, now, arg, out, files>>
    /\ LET answer(status, detail) ==
               [Response("delete_category_endpoint", status, detail, category_id) EXCEPT
                    !.req = catalog_request("delete_category_endpoint", u, "", NoPatch)]
       IN  IF get_current_user(u) # 0
           THEN /\ UNCHANGED catalog
                /\ Respond(w, answer(get_current_user(u), credentials_detail(u)))
           ELSE IF \E cu \in get_user_by_id(u) : ~category_staff(cu)
           THEN /\ UNCHANGED catalog
                /\ Respond(w, answer(403, "Only admins can delete categories"))
           ELSE IF get_category_by_id(category_id) = {}
           THEN /\ UNCHANGED catalog
                /\ Respond(w, answer(404, "Category not found"))
           ELSE /\ delete_category(category_id)
                /\ Respond(w, answer(204, ""))

\* the commit of a row of table courses fails: on the unique index of slug, or on the
\* foreign keys instructor_id and category_id
course_conflict(id, row) ==
    \/ \E c \in courses : c # id /\ columns[c].slug = row.slug
    \/ get_user_by_id(row.instructor_id) = {}
    \/ row.category_id # Null /\ get_category_by_id(row.category_id) = {}

\* create_course with the endpoint's answer r on top: IntegrityError is rolled back and
\* raised as ValueError, which the endpoint answers with 400
create_course(w, r, instructor_id, category_id, title, slug) ==
    LET id == NewCourseIds[nextId.course + 1]
        row == Course(title, slug, instructor_id, category_id)
    IN  IF course_conflict(id, row)
        THEN /\ UNCHANGED <<courses, columns, nextId>>
             /\ Respond(w, answered(r, 400, "Course with this slug already exists"))
        ELSE /\ nextId.course < MaxCourses
             /\ nextId' = [nextId EXCEPT !.course = @ + 1]
             /\ courses' = courses \cup {id}
             /\ columns' = [c \in courses \cup {id} |-> IF c = id THEN row ELSE columns[c]]
             /\ Respond(w, answered(r, 201, ""))

\* POST /api/courses
create_course_endpoint(w, u, instructor_id, category_id, title, slug) ==
    /\ req[w] = Idle
    /\ UNCHANGED <<users, lessons, enrollments, progress, now, arg, out, files, categories>>
    /\ LET patch == [NoPatch EXCEPT !.title = title, !.slug = slug]
           answer(status, detail) ==
               [Response("create_course_endpoint", status, detail, Null) EXCEPT
                    !.req = catalog_request("create_course_endpoint", u, "", patch)]
       IN  IF get_current_user(u) # 0
           THEN /\ UNCHANGED <<courses, columns, nextId>>
                /\ Respond(w, answer(get_current_user(u), credentials_detail(u)))
           ELSE IF \E cu \in get_user_by_id(u) : ~course_staff(cu)
           THEN /\ UNCHANGED <<courses, columns, nextId>>
                /\ Respond(w, answer(403, "Only instructors and admins can create courses"))
           ELSE create_course(w, answer(0, ""), instructor_id, category_id, title, slug)

\* update_course with the endpoint's answer r on top
update_course(w, r, course_id, patch) ==
    IF course_id \notin courses
    THEN /\ UNCHANGED columns
         /\ Respond(w, answered(r, 404, "Course not found"))
    ELSE LET row == [columns[course_id] EXCEPT
                         !.title = patched(@, patch.title),
                         !.slug = patched(@, patch.slug),
                         !.description = patched(@, patch.description),
                         !.updated_at = now]
         IN  IF course_conflict(course_id, row)
             THEN /\ UNCHANGED columns
                  /\ Respond(w, answered(r, 400, "Course with this slug already exists"))
             ELSE /\ columns' = [columns EXCEPT ![course_id] = row]
                  /\ Respond(w, answered(r, 200, ""))

\* PUT /api/courses/{course_id}
update_course_endpoint(w, u, course_id, patch) ==
    /\ req[w] = Idle
    /\ UNCHANGED <<store, now, arg, out, files, categories>>
    /\ LET answer(status, detail) ==
               [Response("update_course_endpoint", status, detail, Null) EXCEPT
                    !.req = catalog_request("update_course_endpoint", u, course_id, patch)]
       IN  IF get_current_user(u) # 0
           THEN /\ UNCHANGED columns
                /\ Respond(w, answer(get_current_user(u), credentials_detail(u)))
           ELSE IF \E cu \in get_user_by_id(u) : ~course_staff(cu)
           THEN /\ UNCHANGED columns
                /\ Respond(w, answer(403, "Only instructors and admins can update courses"))
           ELSE update_course(w, answer(0, ""), course_id, patch)

\* db.delete(course) without the cascades: only the row of the course goes
delete_course_alone(course_id) ==
    /\ courses' = courses \ {course_id}
    /\ columns' = [c \in courses \ {course_id} |-> columns[c]]
    /\ UNCHANGED <<lessons, enrollments, progress>>

\* delete_course: db.delete(course) with the ORM cascades Course.lessons,
\* Course.enrollments, Lesson.lesson_progress and Enrollment.lesson_progress
delete_course(course_id) ==
    /\ courses' = courses \ {course_id}
    /\ columns' = [c \in courses \ {course_id} |-> columns[c]]
    /\ lessons' = {l \in lessons : l.course_id # course_id}
    /\ enrollments' = {e \in enrollments : e.course_id # course_id}
    /\ progress' = {p \in progress :
                        /\ \A l \in lessons : l.id = p.lesson_id => l.course_id # course_id
                        /\ \A e \in enrollments :
                               e.id = p.enrollment_id => e.course_id # course_id}

\* DELETE /api/courses/{course_id}
delete_course_endpoint(w, u, course_id) ==
    /\ req[w] = Idle
    /\ UNCHANGED <<users, nextId, now, arg, out, files, categories>>
    /\ LET answer(status, detail) ==
               [Response("delete_course_endpoint", status, detail, Null) EXCEPT
                    !.req = catalog_request("delete_course_endpoint", u, course_id, NoPatch)]
       IN  IF get_current_user(u) # 0
           THEN /\ UNCHANGED <<courses, columns, lessons, enrollments, progress>>
                /\ Respond(w, answer(get_current_user(u), credentials_detail(u)))
           ELSE IF \E cu \in get_user_by_id(u) : ~course_staff(cu)
           THEN /\ UNCHANGED <<courses, columns, lessons, enrollments, progress>>
                /\ Respond(w, answer(403, "Only instructors and admins can delete courses"))
           ELSE IF course_id \notin courses
           THEN /\ UNCHANGED <<courses, columns, lessons, enrollments, progress>>
                /\ Respond(w, answer(404, "Course not found"))
           ELSE /\ delete_course(course_id)
                /\ Respond(w, answer(204, ""))

----------------------------------------------------------------------------
(* Student profiles: update_user and its two PUT /api/students/{user_id} handlers *)

\* update_user: setattr(user, 'full_name', value)
update_user(user_id, full_name) ==
    users' = {IF u.id = user_id THEN [u EXCEPT !.full_name = full_name] ELSE u : u \in users}

\* an update request of caller u for the profile of user_id, as logged in the answer
profile_request(op, u, user_id) ==
    [Idle EXCEPT !.op = op, !.user = u, !.target = user_id]

\* PUT /api/students/{user_id} of the JSON API
update_student(w, u, user_id, full_name) ==
    /\ req[w] = Idle
    /\ UNCHANGED <<courses, lessons, enrollments, progress, nextId, now, aux>>
    /\ LET answer(status, detail) ==
               [Response("update_student", status, detail, Null) EXCEPT
                    !.req = profile_request("update_student", u, user_id)]
       IN  IF get_current_user(u) # 0
           THEN /\ UNCHANGED users
                /\ Respond(w, answer(get_current_user(u), credentials_detail(u)))
           ELSE IF u # user_id
           THEN /\ UNCHANGED users
                /\ Respond(w, answer(403, "Not authorized to update this profile"))
           ELSE /\ update_user(user_id, full_name)
                /\ Respond(w, answer(200, ""))

\* PUT /api/students/<user_id> of the blueprint app; u is session['user_id']
update_student_profile(w, u, user_id, full_name) ==
    /\ req[w] = Idle
    /\ UNCHANGED <<courses, lessons, enrollments, progress, nextId, now, aux>>
    /\ LET answer(status, detail) ==
               [Response("update_student_profile", status, detail, Null) EXCEPT
                    !.req = profile_request("update_student_profile", u, user_id)]
       IN  IF user_id # u
           THEN /\ UNCHANGED users
                /\ Respond(w, answer(403, "Unauthorized"))
           ELSE IF get_user_by_id(user_id) = {}
           THEN /\ UNCHANGED users
                /\ Respond(w, answer(400, "Update failed"))
           ELSE /\ update_user(user_id, full_name)
                /\ Respond(w, answer(200, ""))

----------------------------------------------------------------------------
(* Completing a lesson: routes/course.py and main.py, both POST /api/complete-lesson *)

\* every lesson of the course has a completed row of the enrollment
\* (completed_lesson_ids and the loop over lessons)
all_complete(enrollment_id, course_id) ==
    \A l \in lessons_of(course_id) :
        \E p \in get_progress_by_enrollment(enrollment_id) :
            p.lesson_id = l.id /\ p.is_completed

\* enrollment.completed_at = datetime.now(); db.commit()
mark_completed(enrollment_id) ==
    enrollments' = {IF e.id = enrollment_id THEN [e EXCEPT !.completed_at = now] ELSE e :
                        e \in enrollments}

\* complete_enrollment(db, enrollment_id) of the service layer
complete_enrollment(enrollment_id) ==
    /\ get_enrollment_by_id(enrollment_id) # {}
    /\ mark_completed(enrollment_id)
    /\ UNCHANGED <<users, courses, lessons, progress, nextId, now, req, resp, aux>>

\* routes complete_lesson, up to create_enrollment or create_lesson_progress
complete_lesson(w, u, lesson_id) ==
    /\ req[w] = Idle
    /\ UNCHANGED <<store, now, aux>>
    /\ IF get_lesson_by_id(lesson_id) = {}
       THEN Respond(w, Response("complete_lesson", 404, "Lesson not found", Null))
       ELSE \E l \in get_lesson_by_id(lesson_id) :
            LET r == [Idle EXCEPT !.op = "complete_lesson", !.user = u,
                                  !.course = l.course_id, !.lesson = lesson_id,
                                  !.order = l.order]
            IN  IF enrollments_of(u, l.course_id) = {}
                THEN \* "Auto enroll if not enrolled (edge case)"
                     Begin(w, [r EXCEPT !.pc = "ce_check"])
                ELSE \E e \in enrollments_of(u, l.course_id) :
                         Begin(w, [r EXCEPT !.pc = "clp_check", !.enr = e.id])

\* routes complete_lesson: "Check course completion", "Find next lesson", the answer
complete_lesson_finish(w) ==
    /\ req[w].pc = "cl_finish"
    /\ UNCHANGED <<users, courses, lessons, progress, nextId, now, aux>>
    /\ IF all_complete(req[w].enr, req[w].course)
       THEN mark_completed(req[w].enr)
       ELSE UNCHANGED enrollments
    /\ \E next_lesson \in next_lesson_ids(req[w].course, req[w].order) :
           Respond(w, [Response("complete_lesson", 200, "", req[w].enr) EXCEPT
                           !.flag = all_complete(req[w].enr, req[w].course),
                           !.next = next_lesson,
                           !.req = req[w]])

\* main.py complete_lesson, up to "Find or create enrollment"
main_complete_lesson(w, u, lesson_id) ==
    /\ req[w] = Idle
    /\ UNCHANGED <<store, now, aux>>
    /\ IF get_user_by_id(u) = {}
       THEN Respond(w, Response("main_complete_lesson", 401, "Unauthorized", Null))
       ELSE IF get_lesson_by_id(lesson_id) = {}
       THEN Respond(w, Response("main_complete_lesson", 404, "Lesson not found", Null))
       ELSE \E l \in get_lesson_by_id(lesson_id) :
            LET r == [Idle EXCEPT !.op = "main_complete_lesson", !.user = u,
                                  !.course = l.course_id, !.lesson = lesson_id,
                                  !.order = l.order]
            IN  IF enrollments_of(u, l.course_id) = {}
                THEN Begin(w, [r EXCEPT !.pc = "main_insert"])
                ELSE \E e \in enrollments_of(u, l.course_id) :
                         Begin(w, [r EXCEPT !.pc = "m_check", !.enr = e.id])

\* main.py complete_lesson: db.add(enrollment), db.commit(), db.refresh(enrollment)
main_complete_lesson_enroll(w) ==
    /\ req[w].pc = "main_insert"
    /\ req[w].op = "main_complete_lesson"
    /\ UNCHANGED <<users, courses, lessons, progress, now, aux>>
    /\ IF ~EnrollmentKeysExist(req[w].user, req[w].course)
       THEN /\ UNCHANGED <<enrollments, nextId>>
            /\ Respond(w, Response("main_complete_lesson", 500, "IntegrityError", Null))
       ELSE /\ nextId.enrollment < MaxEnrollments
            /\ nextId' = [nextId EXCEPT !.enrollment = @ + 1]
            /\ enrollments' = enrollments \cup
                   {Enrollment(nextId.enrollment + 1, req[w].user, req[w].course)}
            /\ Goto(w, [req[w] EXCEPT !.pc = "m_check", !.enr = nextId.enrollment + 1])

\* main.py complete_lesson, "Find or create lesson progress": the query, and for a
\* row found progress.is_completed = True with its commit
main_complete_lesson_find(w) ==
    /\ req[w].pc = "m_check"
    /\ UNCHANGED <<users, courses, lessons, enrollments, nextId, now, aux>>
    /\ IF get_progress_by_enrollment_and_lesson(req[w].enr, req[w].lesson) = {}
       THEN /\ UNCHANGED progress
            /\ Goto(w, [req[w] EXCEPT !.pc = "m_write"])
       ELSE \E p \in get_progress_by_enrollment_and_lesson(req[w].enr, req[w].lesson) :
            /\ progress' = (progress \ {p}) \cup {[p EXCEPT !.is_completed = TRUE]}
            /\ Goto(w, [req[w] EXCEPT !.pc = "m_finish", !.prog = p.id])

\* main.py complete_lesson: db.add(LessonProgress(..., is_completed=True)), db.commit()
main_complete_lesson_add(w) ==
    /\ req[w].pc = "m_write"
    /\ UNCHANGED <<users, courses, lessons, enrollments, now, aux>>
    /\ IF ~ProgressKeysExist(req[w].enr, req[w].lesson)
       THEN /\ UNCHANGED <<progress, nextId>>
            /\ Respond(w, Response("main_complete_lesson", 500, "IntegrityError", Null))
       ELSE /\ nextId.progress < MaxProgress
            /\ nextId' = [nextId EXCEPT !.progress = @ + 1]
            /\ progress' = progress \cup
                   {LessonProgress(nextId.progress + 1, req[w].enr, req[w].lesson, TRUE)}
            /\ Goto(w, [req[w] EXCEPT !.pc = "m_finish", !.prog = nextId.progress + 1])

\* main.py complete_lesson: "Find next lesson", "Check if course is completed", the answer
main_complete_lesson_finish(w) ==
    /\ req[w].pc = "m_finish"
    /\ UNCHANGED <<users, courses, lessons, progress, nextId, now, aux>>
    /\ LET no_next == next_lessons(req[w].course, req[w].order) = {}
           total_lessons == Cardinality(lessons_of(req[w].course))
           completed_lessons ==
               Cardinality({p \in get_progress_by_enrollment(req[w].enr) : p.is_completed})
       IN  /\ IF no_next /\ completed_lessons >= total_lessons
              THEN mark_completed(req[w].enr)
              ELSE UNCHANGED enrollments
           /\ \E next_lesson \in next_lesson_ids(req[w].course, req[w].order) :
                  Respond(w, [Response("main_complete_lesson", 200, "", req[w].enr) EXCEPT
                                  !.flag = no_next, !.next = next_lesson, !.req = req[w]])

\* datetime.now() moves on
Tick ==
    /\ now < MaxTime
    /\ now' = now + 1
    /\ UNCHANGED <<store, req, resp, aux>>

\* the users every behaviour starts with
SeedUsers ==
    {User(s, STUDENT, "a") : s \in Students}
        \cup {User(i, INSTRUCTOR, "a") : i \in Instructors}
        \cup {User(a, ADMIN, "a") : a \in Admins}

NoWork == [w \in Workers |-> Idle]
NoResps == [w \in Workers |-> NoResp]
NoIds == [lesson |-> 0, enrollment |-> 0, progress |-> 0, user |-> 0, category |-> 0,
          course |-> 0]
\* the seeded courses' columns, no category and no uploaded file
SeedCatalog ==
    /\ files = {}
    /\ categories = {}
    /\ columns = [c \in courses |-> Course("a", c, "ins", Null)]

NoArg == [completed_count |-> 0, total_lessons |-> 0]
NoOut == [done |-> FALSE, progress_percent |-> 0]

InitEnroll ==
    /\ users = SeedUsers
    /\ courses = {"c1"}
    /\ lessons = {}
    /\ enrollments = {}
    /\ progress = {}
    /\ nextId = NoIds
    /\ now = 1
    /\ req = NoWork
    /\ resp = NoResps
    /\ arg = NoArg
    /\ out = NoOut
    /\ SeedCatalog

NextEnroll ==
    \/ \E w \in Workers, u \in Students, c \in CourseIds : enroll_in_course(w, u, c)
    \/ \E w \in Workers, u \in Students, c \in CourseIds : enroll_course(w, u, c)
    \/ \E w \in Workers, u \in Students, c \in CourseIds : main_enroll_course(w, u, c)
    \/ \E w \in Workers : create_enrollment_check(w)
    \/ \E w \in Workers : create_enrollment_commit(w)
    \/ \E w \in Workers : main_enroll_course_commit(w)
    \/ \E w \in Workers, u \in Students \cup Admins, e \in 1..MaxEnrollments :
           unenroll_from_course(w, u, e)

SpecEnroll == InitEnroll /\ [][NextEnroll]_vars

----------------------------------------------------------------------------
(* One student working through a two-lesson course, one request at a time *)

\* the worker of the sequential specifications
Sequential == {"w1"}
Learners == {"s1"}
SeedLessons == {Lesson(1, "c1", 1), Lesson(2, "c1", 2)}
\* lesson ids a request may name; the last one does not exist
LessonIds == {1, 2, 9}

InitProgress ==
    /\ users = SeedUsers
    /\ courses = {"c1"}
    /\ lessons = SeedLessons
    /\ enrollments = {}
    /\ progress = {}
    /\ nextId = [NoIds EXCEPT !.lesson = Cardinality(SeedLessons)]
    /\ now = 1
    /\ req = NoWork /\ resp = NoResps
    /\ arg = NoArg /\ out = NoOut /\ SeedCatalog

NextProgress ==
    \/ \E w \in Sequential, u \in Learners : enroll_in_course(w, u, "c1")
    \/ \E w \in Sequential : create_enrollment_check(w)
    \/ \E w \in Sequential : create_enrollment_commit(w)
    \/ \E w \in Sequential, u \in Learners, e \in 1..MaxEnrollments, l \in LessonIds :
           start_lesson(w, u, e, l)
    \/ \E w \in Sequential : create_lesson_progress_check(w)
    \/ \E w \in Sequential : create_lesson_progress_commit(w)
    \/ \E w \in Sequential, u \in Learners, p \in 1..MaxProgress, b \in BOOLEAN :
           update_lesson_progress_endpoint(w, u, p, b)
    \/ \E w \in Sequential, u \in Learners, l \in LessonIds : lesson(w, u, l)
    \/ \E w \in Sequential : lesson_render(w)
    \/ \E w \in Sequential, u \in Learners, l \in LessonIds : main_lesson(w, u, l)
    \/ \E w \in Sequential, u \in Learners, l \in LessonIds : complete_lesson(w, u, l)
    \/ \E w \in Sequential : update_lesson_progress_call(w)
    \/ \E w \in Sequential : complete_lesson_finish(w)
    \/ \E w \in Sequential, u \in Learners, l \in LessonIds : main_complete_lesson(w, u, l)
    \/ \E w \in Sequential : main_complete_lesson_enroll(w)
    \/ \E w \in Sequential : main_complete_lesson_find(w)
    \/ \E w \in Sequential : main_complete_lesson_add(w)
    \/ \E w \in Sequential : main_complete_lesson_finish(w)

SpecProgress == InitProgress /\ [][NextProgress]_vars

----------------------------------------------------------------------------
(* The same student with the clock running: timestamps of repeated completions *)

NextClock ==
    \/ Tick
    \/ \E e \in 1..MaxEnrollments : complete_enrollment(e)
    \/ \E w \in Sequential, u \in Learners, p \in 1..MaxProgress, b \in BOOLEAN :
           update_lesson_progress_endpoint(w, u, p, b)
    \/ \E w \in Sequential, u \in Learners, l \in LessonIds : complete_lesson(w, u, l)
    \/ \E w \in Sequential : create_enrollment_check(w)
    \/ \E w \in Sequential : create_enrollment_commit(w)
    \/ \E w \in Sequential : create_lesson_progress_check(w)
    \/ \E w \in Sequential : create_lesson_progress_commit(w)
    \/ \E w \in Sequential : update_lesson_progress_call(w)
    \/ \E w \in Sequential : complete_lesson_finish(w)
    \/ \E w \in Sequential, u \in Learners, l \in LessonIds : main_complete_lesson(w, u, l)
    \/ \E w \in Sequential : main_complete_lesson_enroll(w)
    \/ \E w \in Sequential : main_complete_lesson_find(w)
    \/ \E w \in Sequential : main_complete_lesson_add(w)
    \/ \E w \in Sequential : main_complete_lesson_finish(w)

SpecClock == InitProgress /\ [][NextClock]_vars

----------------------------------------------------------------------------
(* Two requests of one enrolled student in flight at once *)

InitRace ==
    /\ now = 1
    /\ users = SeedUsers
    /\ courses = {"c1"}
    /\ lessons = SeedLessons
    /\ enrollments = {Enrollment(1, "s1", "c1")}
    /\ progress = {}
    /\ nextId = [NoIds EXCEPT !.lesson = Cardinality(SeedLessons), !.enrollment = 1]
    /\ req = NoWork /\ resp = NoResps
    /\ arg = NoArg /\ out = NoOut /\ SeedCatalog

NextRace ==
    \/ \E w \in Workers, u \in Learners, l \in LessonIds : start_lesson(w, u, 1, l)
    \/ \E w \in Workers, u \in Learners, l \in LessonIds : lesson(w, u, l)
    \/ \E w \in Workers, u \in Learners, l \in LessonIds : complete_lesson(w, u, l)
    \/ \E w \in Workers : create_lesson_progress_check(w)
    \/ \E w \in Workers : create_lesson_progress_commit(w)
    \/ \E w \in Workers : lesson_render(w)
    \/ \E w \in Workers : update_lesson_progress_call(w)
    \/ \E w \in Workers : complete_lesson_finish(w)

SpecRace == InitRace /\ [][NextRace]_vars

----------------------------------------------------------------------------
(* Staff editing the lessons of two courses while the lists are read *)

\* values of Lesson.order a request may carry (LessonBase: order >= 1)
Orders == {1, 2}
Editors == {"ins", "s1"}

InitLessons ==
    /\ users = SeedUsers
    /\ courses = {"c1", "c2"}
    /\ lessons = {}
    /\ enrollments = {}
    /\ progress = {}
    /\ nextId = NoIds
    /\ now = 1
    /\ req = NoWork /\ resp = NoResps
    /\ arg = NoArg /\ out = NoOut /\ SeedCatalog

NextLessons ==
    \/ \E w \in Sequential, c \in {"c1", "c2", "c0"} : get_course_lessons(w, c)
    \/ \E w \in Sequential, u \in Editors, c \in {"c1", "c2", "c0"}, o \in Orders :
           create_lesson_endpoint(w, u, c, o)
    \/ \E w \in Sequential, u \in Editors, l \in 1..MaxLessonRows, o \in Orders \cup {Null} :
           update_lesson_endpoint(w, u, l, o)
    \/ \E w \in Sequential, u \in Editors, l \in 1..MaxLessonRows :
           delete_lesson_endpoint(w, u, l)

SpecLessons == InitLessons /\ [][NextLessons]_vars

----------------------------------------------------------------------------
(* Two students acting on each other's profiles and enrollments, and an admin *)

\* ids a profile request may name; the last one is no user
ProfileIds == Students \cup {"nobody"}

InitAccess ==
    /\ now = 1
    /\ users = SeedUsers
    /\ courses = {"c1"}
    /\ lessons = {}
    /\ enrollments = {Enrollment(1, "s1", "c1"), Enrollment(2, "s2", "c1")}
    /\ progress = {}
    /\ nextId = [NoIds EXCEPT !.enrollment = 2]
    /\ req = NoWork /\ resp = NoResps
    /\ arg = NoArg /\ out = NoOut /\ SeedCatalog

NextAccess ==
    \/ \E w \in Workers, u \in Students, t \in ProfileIds, n \in Texts :
           update_student(w, u, t, n)
    \/ \E w \in Workers, u \in Students, t \in ProfileIds, n \in Texts :
           update_student_profile(w, u, t, n)
    \/ \E w \in Workers, u \in Students \cup Admins, e \in 1..MaxEnrollments :
           unenroll_from_course(w, u, e)

SpecAccess == InitAccess /\ [][NextAccess]_vars

----------------------------------------------------------------------------
(* Signing up: POST /api/auth/signup of the JSON API and POST /student-sign-up of *)
(* the blueprint app, both on get_user_by_email and create_user of app/services.py *)

\* e-mail addresses a signup may carry; "s1" is the address of a seeded user
Emails == {"e1", "e2", "s1"}

\* primary keys of the rows that signups insert, in the order they are handed out
NewUserIds == <<"u1", "u2", "u3", "u4">>

get_user_by_email(email) == {u \in users : u.email = email}

\* a signup of e-mail address email, as logged in the answer
signup_request(op, email) == [Idle EXCEPT !.op = op, !.pc = "su_insert", !.target = email]

\* the statements of a signup handler up to the call of create_user: the password
\* comparison and "Check if user already exists"; mismatch is the handler's own
\* comparison of password and confirm_password
signup_check(w, op, email, mismatch) ==
    /\ req[w] = Idle
    /\ UNCHANGED <<store, now, aux>>
    /\ IF mismatch
       THEN Respond(w, Response(op, 400, "Passwords do not match", Null))
       ELSE IF get_user_by_email(email) # {}
       THEN Respond(w, [Response(op, 400, "Email already registered", Null) EXCEPT
                            !.req = signup_request(op, email)])
       ELSE Begin(w, signup_request(op, email))

\* POST /api/auth/signup
signup(w, email, mismatch) == signup_check(w, "signup", email, mismatch)

\* POST /student-sign-up with a JSON body
student_sign_up(w, email, mismatch) == signup_check(w, "student_sign_up", email, mismatch)

\* what a signup handler makes of the ValueError of create_user: signup answers 400
\* with the message, student_sign_up catches Exception and answers 500
create_user_raised(w) ==
    Respond(w, [Response(req[w].op, IF req[w].op = "signup" THEN 400 ELSE 500,
                         "User with this email or enrollment number already exists", Null)
                    EXCEPT !.req = req[w]])

\* create_user, called by a signup handler, and the handler's answer: the commit
\* fails on the unique index of users.email (IntegrityError, rolled back, ValueError)
create_user(w) ==
    /\ req[w].pc = "su_insert"
    /\ UNCHANGED <<courses, lessons, enrollments, progress, now, aux>>
    /\ IF get_user_by_email(req[w].target) # {}
       THEN /\ UNCHANGED <<users, nextId>>
            /\ create_user_raised(w)
       ELSE /\ nextId.user < MaxUsers
            /\ nextId' = [nextId EXCEPT !.user = @ + 1]
            /\ users' = users \cup
                   {[User(NewUserIds[nextId.user + 1], STUDENT, "a") EXCEPT
                         !.email = req[w].target]}
            /\ Respond(w, [Response(req[w].op, IF req[w].op = "signup" THEN 201 ELSE 200,
                                    "", Null)
                               EXCEPT !.req = req[w]])

InitSignup ==
    /\ now = 1
    /\ users = SeedUsers
    /\ courses = {} /\ lessons = {} /\ enrollments = {} /\ progress = {}
    /\ nextId = NoIds
    /\ req = NoWork /\ resp = NoResps
    /\ arg = NoArg /\ out = NoOut /\ SeedCatalog

NextSignup ==
    \/ \E w \in Workers, e \in Emails, m \in BOOLEAN : signup(w, e, m)
    \/ \E w \in Workers, e \in Emails, m \in BOOLEAN : student_sign_up(w, e, m)
    \/ \E w \in Workers : create_user(w)

SpecSignup == InitSignup /\ [][NextSignup]_vars

----------------------------------------------------------------------------
(* Uploading a profile photo: POST /api/upload/profile-photo of the JSON API and *)
(* of the blueprint app, both writing into static/uploads/profile_photos         *)

\* the size limit of the JSON API's handler, in MB: 5 * 1024 * 1024 bytes
PhotoLimit == 5
\* Config.MAX_CONTENT_LENGTH of the blueprint app, in MB: 16 * 1024 * 1024 bytes
MAX_CONTENT_LENGTH == 16

\* the type of an uploaded file: its file name ends in .t and its content type is
\* image/t
FileTypes == {"png", "gif"}
\* sizes of an uploaded file, in MB
FileSizes == {1, 6, 17}

\* allowed_types of the JSON API, Config.ALLOWED_EXTENSIONS of the blueprint app
allowed_types == {"jpeg", "jpg", "png", "webp"}
ALLOWED_EXTENSIONS == {"png", "jpg", "jpeg", "webp"}

\* allowed_file: the file name has an extension of the allow-list
allowed_file(type) == type \in ALLOWED_EXTENSIONS

\* unique_filename: f"{user.id}_{int(datetime.now().timestamp())}.{extension}"
unique_filename(user_id, type) == [user |-> user_id, at |-> now, ext |-> type]

\* an upload of caller u, as logged in the answer
upload_request(op, u, type, size) ==
    [Idle EXCEPT !.op = op, !.user = u, !.target = type, !.total = size]

\* the user row with the new profile_image
with_photo(cu, photo) ==
    users' = {IF u.id = cu.id THEN [u EXCEPT !.profile_image = photo] ELSE u : u \in users}

\* the folder after a failed write of file name (no space, no permission): the file
\* was not created, or it was created and holds a part of the upload
save_failed(kept, name) == {kept, kept \cup {name}}

\* POST /api/upload/profile-photo of the JSON API.  The old file is looked for under
\* the name left when '/uploads/profile_photos/' is cut out of profile_image, which
\* is a file of the folder only for a path this handler wrote.
upload_profile_photo(w, u, type, size) ==
    /\ req[w] = Idle
    /\ UNCHANGED <<courses, lessons, enrollments, progress, nextId, now, arg, out, catalog>>
    /\ LET answer(status, detail) ==
               [Response("upload_profile_photo", status, detail, Null) EXCEPT
                    !.req = upload_request("upload_profile_photo", u, type, size)]
       IN  IF get_current_user(u) # 0
           THEN /\ UNCHANGED <<users, files>>
                /\ Respond(w, answer(get_current_user(u), credentials_detail(u)))
           ELSE IF type \notin allowed_types
           THEN /\ UNCHANGED <<users, files>>
                /\ Respond(w, answer(400, "Invalid file type. Allowed types: jpg, jpeg, png, webp"))
           ELSE IF size > PhotoLimit
           THEN /\ UNCHANGED <<users, files>>
                /\ Respond(w, answer(400, "File too large. Maximum size is 5MB"))
           ELSE \E current_user \in get_user_by_id(u) :
                    LET old == current_user.profile_image
                        kept == IF old # NoPhoto /\ old.prefix = "/uploads/profile_photos/"
                                THEN files \ {old.file} ELSE files
                        name == unique_filename(u, type)
                    IN  \/ /\ files' = kept \cup {name}
                           /\ with_photo(current_user,
                                         [prefix |-> "/uploads/profile_photos/",
                                          file |-> name])
                           /\ Respond(w, answer(200, "Profile photo uploaded successfully"))
                        \/ \* file_path.open or shutil.copyfileobj raises
                           /\ files' \in save_failed(kept, name)
                           /\ UNCHANGED users
                           /\ Respond(w, answer(500, "Failed to save file"))

\* POST /api/upload/profile-photo of the blueprint app (app/routes/student.py), by a
\* logged-in user.  Werkzeug refuses a body over MAX_CONTENT_LENGTH with 413 when
\* request.files is read; the handler itself tests the extension only.
student_upload_profile_photo(w, u, type, size) ==
    /\ req[w] = Idle
    /\ UNCHANGED <<courses, lessons, enrollments, progress, nextId, now, arg, out, catalog>>
    /\ LET answer(status, detail) ==
               [Response("student_upload_profile_photo", status, detail, Null) EXCEPT
                    !.req = upload_request("student_upload_profile_photo", u, type, size)]
       IN  IF size > MAX_CONTENT_LENGTH
           THEN /\ UNCHANGED <<users, files>>
                /\ Respond(w, answer(413, "Request Entity Too Large"))
           ELSE IF ~allowed_file(type)
           THEN /\ UNCHANGED <<users, files>>
                /\ Respond(w, answer(400, "Invalid file type"))
           ELSE IF get_user_by_id(u) = {}
           THEN /\ UNCHANGED <<users, files>>
                /\ Respond(w, answer(500, "'NoneType' object has no attribute 'profile_image'"))
           ELSE \E user \in get_user_by_id(u) :
                    LET old == user.profile_image
                        kept == IF old # NoPhoto THEN files \ {old.file} ELSE files
                        name == unique_filename(u, type)
                    IN  \/ /\ files' = kept \cup {name}
                           /\ with_photo(user, [prefix |-> "/static/uploads/profile_photos/",
                                                file |-> name])
                           /\ Respond(w, answer(200, "Profile photo uploaded successfully"))
                        \/ \* file.save raises: except Exception, 500
                           /\ files' \in save_failed(kept, name)
                           /\ UNCHANGED users
                           /\ Respond(w, answer(500, "Failed to save file"))

InitUpload ==
    /\ now = 1
    /\ users = SeedUsers
    /\ courses = {} /\ lessons = {} /\ enrollments = {} /\ progress = {}
    /\ nextId = NoIds
    /\ req = NoWork /\ resp = NoResps
    /\ arg = NoArg /\ out = NoOut /\ SeedCatalog

NextUpload ==
    \/ \E w \in Sequential, u \in Students, t \in FileTypes, n \in FileSizes :
           upload_profile_photo(w, u, t, n)
    \/ \E w \in Sequential, u \in Students, t \in FileTypes, n \in FileSizes :
           student_upload_profile_photo(w, u, t, n)
    \/ Tick

SpecUpload == InitUpload /\ [][NextUpload]_vars

----------------------------------------------------------------------------
(* Sessions of the token API: login, logout and deleting one's account.  A token *)
(* names its user by id; the tokens of the model are not expired.               *)

\* a request of the token API that names only its caller, as logged in the answer
token_request(op, u) == [Idle EXCEPT !.op = op, !.user = u]

\* update_last_login: "Update user's last login timestamp and set is_active to True"
update_last_login(user_id) ==
    users' = {IF u.id = user_id THEN [u EXCEPT !.last_login = now, !.is_active = TRUE]
              ELSE u : u \in users}

\* deactivate_user: "Set user's is_active to False when they logout"
deactivate_user(user_id) ==
    users' = {IF u.id = user_id THEN [u EXCEPT !.is_active = FALSE] ELSE u : u \in users}

\* create_access_token(data={"sub": user.id, "email": user.email}): the claims that
\* jwt.encode signs; two logins of a user in the same second give the same token
create_access_token(user) ==
    [sub |-> user.id, email |-> user.email, exp |-> now + TokenLife]

\* verify_token: 0 for the token's claims, 401 when jwt.decode raises (a JWTError:
\* the token is past its exp); the tokens of the model carry a sub and are signed
\* with SECRET_KEY
verify_token(token) == IF now > token.exp THEN 401 ELSE 0

\* POST /api/auth/login (and POST /api/auth/token); password_ok is the outcome of
\* check_password in authenticate_user
login(w, email, password_ok) ==
    /\ req[w] = Idle
    /\ UNCHANGED <<courses, lessons, enrollments, progress, nextId, now, aux>>
    /\ IF get_user_by_email(email) = {} \/ ~password_ok
       THEN /\ UNCHANGED users
            /\ Respond(w, [Response("login", 401, "Incorrect email or password", Null)
                               EXCEPT !.req = [Idle EXCEPT !.op = "login", !.target = email]])
       ELSE \E user \in get_user_by_email(email) :
                /\ update_last_login(user.id)
                /\ Respond(w, [Response("login", 200, "", Null) EXCEPT
                                   !.token = create_access_token(user),
                                   !.req = [Idle EXCEPT !.op = "login", !.user = user.id,
                                                        !.target = email]])

\* POST /api/auth/logout
logout(w, u) ==
    /\ req[w] = Idle
    /\ UNCHANGED <<courses, lessons, enrollments, progress, nextId, now, aux>>
    /\ IF get_current_user(u) # 0
       THEN /\ UNCHANGED users
            /\ Respond(w, [Response("logout", get_current_user(u), credentials_detail(u), Null)
                               EXCEPT !.req = token_request("logout", u)])
       ELSE /\ deactivate_user(u)
            /\ Respond(w, [Response("logout", 200, "Logged out successfully", Null)
                               EXCEPT !.req = token_request("logout", u)])

\* GET /api/auth/me
get_current_user_profile(w, u) ==
    /\ req[w] = Idle
    /\ UNCHANGED <<store, now, aux>>
    /\ Respond(w, [Response("get_current_user_profile",
                            IF get_current_user(u) # 0 THEN get_current_user(u) ELSE 200,
                            IF get_current_user(u) # 0 THEN credentials_detail(u) ELSE "",
                            Null)
                       EXCEPT !.req = token_request("get_current_user_profile", u)])

\* delete_user, of a user who teaches no course: the profile photo file goes if
\* profile_image points into the folder, and the row goes with the ORM cascades
\* User.enrollments and Enrollment.lesson_progress
delete_user(user_id) ==
    /\ files' = files \ {u.profile_image.file :
                            u \in {x \in get_user_by_id(user_id) :
                                       x.profile_image.prefix = "/uploads/profile_photos/"}}
    /\ users' = users \ get_user_by_id(user_id)
    /\ enrollments' = {e \in enrollments : e.student_id # user_id}
    /\ progress' = {p \in progress :
                        \A e \in enrollments : e.id = p.enrollment_id => e.student_id # user_id}

\* DELETE /api/students/{user_id}
delete_student(w, u, user_id) ==
    /\ req[w] = Idle
    /\ UNCHANGED <<courses, lessons, nextId, now, arg, out, catalog>>
    /\ LET answer(status, detail) ==
               [Response("delete_student", status, detail, Null) EXCEPT
                    !.req = profile_request("delete_student", u, user_id)]
       IN  IF get_current_user(u) # 0
           THEN /\ UNCHANGED <<users, enrollments, progress, files>>
                /\ Respond(w, answer(get_current_user(u), credentials_detail(u)))
           ELSE IF u # user_id
           THEN /\ UNCHANGED <<users, enrollments, progress, files>>
                /\ Respond(w, answer(403, "Not authorized to delete this profile"))
           ELSE /\ delete_user(user_id)
                /\ Respond(w, answer(204, ""))

InitSession ==
    /\ now = 1
    /\ users = SeedUsers
    /\ courses = {"c1"}
    /\ lessons = {}
    /\ enrollments = {Enrollment(1, "s1", "c1"), Enrollment(2, "s2", "c1")}
    /\ progress = {}
    /\ nextId = [NoIds EXCEPT !.enrollment = 2]
    /\ req = NoWork /\ resp = NoResps
    /\ arg = NoArg /\ out = NoOut /\ SeedCatalog

NextSession ==
    \/ \E w \in Sequential, e \in Students, ok \in BOOLEAN : login(w, e, ok)
    \/ \E w \in Sequential, u \in Students : logout(w, u)
    \/ \E w \in Sequential, u \in Students : get_current_user_profile(w, u)
    \/ \E w \in Sequential, u \in Students, t \in Students : delete_student(w, u, t)
    \/ \E w \in Sequential, u \in Students, t \in Students, n \in Texts :
           update_student(w, u, t, n)
    \/ \E w \in Sequential, u \in Students, e \in 1..MaxEnrollments :
           unenroll_from_course(w, u, e)

SpecSession == InitSession /\ [][NextSession]_vars

----------------------------------------------------------------------------
(* A student, the instructor and the admin creating, updating and deleting *)
(* categories, courses and lessons                                         *)

\* one caller of each role
Roles == {"s1", "ins", "adm"}

InitCatalog ==
    /\ now = 1
    /\ users = SeedUsers
    /\ courses = {"c1"}
    /\ lessons = {} /\ enrollments = {} /\ progress = {}
    /\ nextId = NoIds
    /\ req = NoWork /\ resp = NoResps
    /\ arg = NoArg /\ out = NoOut /\ SeedCatalog

NextCatalog ==
    \/ \E w \in Sequential, u \in Roles : create_category_endpoint(w, u, "a", "a")
    \/ \E w \in Sequential, u \in Roles, c \in 1..MaxCategories :
           update_category_endpoint(w, u, c, "b", Unset)
    \/ \E w \in Sequential, u \in Roles, c \in 1..MaxCategories :
           delete_category_endpoint(w, u, c)
    \/ \E w \in Sequential, u \in Roles, c \in 0..1 :
           create_course_endpoint(w, u, "ins", c, "a", "b")
    \/ \E w \in Sequential, u \in Roles, c \in {"c1", "n1"} :
           update_course_endpoint(w, u, c, [NoPatch EXCEPT !.title = "b"])
    \/ \E w \in Sequential, u \in Roles, c \in {"c1", "n1"} :
           delete_course_endpoint(w, u, c)
    \/ \E w \in Sequential, u \in Roles : create_lesson_endpoint(w, u, "c1", 1)
    \/ \E w \in Sequential, u \in Roles : update_lesson_endpoint(w, u, 1, 2)
    \/ \E w \in Sequential, u \in Roles, l \in 1..2 : delete_lesson_endpoint(w, u, l)

SpecCatalog == InitCatalog /\ [][NextCatalog]_vars

----------------------------------------------------------------------------
(* The instructor updating a course and the lessons with partial bodies *)

\* the bodies of PUT /api/courses/{course_id}: each field is not set, or null where
\* the column is nullable, or a value; "c2" is the slug of the other course
CoursePatches ==
    {[NoPatch EXCEPT !.title = t, !.slug = g, !.description = d] :
         t \in {Unset, "b"}, g \in {Unset, "x", "c2"}, d \in {Unset, None, "b"}}

InitPatch ==
    /\ now = 1
    /\ users = SeedUsers
    /\ courses = {"c1", "c2"}
    /\ lessons = SeedLessons
    /\ enrollments = {} /\ progress = {}
    /\ nextId = [NoIds EXCEPT !.lesson = Cardinality(SeedLessons)]
    /\ req = NoWork /\ resp = NoResps
    /\ arg = NoArg /\ out = NoOut /\ SeedCatalog

NextPatch ==
    \/ \E w \in Sequential, u \in Instructors, c \in {"c1", "c0"}, p \in CoursePatches :
           update_course_endpoint(w, u, c, p)
    \/ \E w \in Sequential, u \in Instructors, l \in LessonIds, o \in Orders \cup {Null} :
           update_lesson_endpoint(w, u, l, o)
    \/ Tick

SpecPatch == InitPatch /\ [][NextPatch]_vars

----------------------------------------------------------------------------
(* Creates and updates that run into the unique indexes of users.email, *)
(* categories.name, categories.slug and courses.slug                    *)

\* get_instructor_by_id: the user of that id whose role is instructor
get_instructor_by_id(instructor_id) ==
    {u \in get_user_by_id(instructor_id) : u.role = INSTRUCTOR}

\* the commit of a row of table users fails on the unique index of email
user_conflict(row) == \E u \in users : u.id # row.id /\ u.email = row.email

\* a call update_instructor(db, instructor_id, full_name=..., email=...), as logged
\* in its outcome
instructor_request(instructor_id, full_name, email) ==
    [Idle EXCEPT !.op = "update_instructor", !.user = instructor_id, !.target = email,
                 !.patch = [NoPatch EXCEPT !.name = full_name]]

\* update_instructor of services/instructors.py: None (404) for no instructor, the
\* setattr loop over allowed_fields, then db.commit() outside of any try block: an
\* IntegrityError of the commit leaves the function as it is, with no rollback call
\* and no ValueError (status 500: no handler of the caller maps it)
update_instructor(w, instructor_id, full_name, email) ==
    /\ req[w] = Idle
    /\ UNCHANGED <<courses, lessons, enrollments, progress, nextId, now, aux>>
    /\ LET answer(status, detail) ==
               [Response("update_instructor", status, detail, Null) EXCEPT
                    !.req = instructor_request(instructor_id, full_name, email)]
       IN  IF get_instructor_by_id(instructor_id) = {}
           THEN /\ UNCHANGED users
                /\ Respond(w, answer(404, "Instructor not found"))
           ELSE \E instructor \in get_instructor_by_id(instructor_id) :
                    LET row == [instructor EXCEPT !.full_name = patched(@, full_name),
                                                  !.email = patched(@, email)]
                    IN  IF user_conflict(row)
                        THEN /\ UNCHANGED users
                             /\ Respond(w, answer(500, "IntegrityError"))
                        ELSE /\ users' = (users \ {instructor}) \cup {row}
                             /\ Respond(w, answer(200, ""))

\* names and slugs of the requests: "c1" and "c2" are the slugs of the seeded courses
Names == {"a", "b"}
Slugs == {"c1", "x"}

InitConflict ==
    /\ now = 1
    /\ users = SeedUsers
    /\ courses = {"c1", "c2"}
    /\ lessons = {} /\ enrollments = {} /\ progress = {}
    /\ nextId = NoIds
    /\ req = NoWork /\ resp = NoResps
    /\ arg = NoArg /\ out = NoOut /\ SeedCatalog

NextConflict ==
    \/ \E w \in Sequential, u \in Admins, n \in Names, g \in Names :
           create_category_endpoint(w, u, n, g)
    \/ \E w \in Sequential, u \in Admins, c \in 1..MaxCategories, n \in Names \cup {Unset} :
           update_category_endpoint(w, u, c, n, Unset)
    \/ \E w \in Sequential, u \in Admins, g \in Slugs :
           create_course_endpoint(w, u, "ins", Null, "a", g)
    \/ \E w \in Sequential, u \in Admins, c \in {"c1", "n1"}, g \in Slugs \cup {"c2"} :
           update_course_endpoint(w, u, c, [NoPatch EXCEPT !.slug = g])
    \/ \E w \in Sequential, i \in {"ins", "s1"}, n \in {Unset, "b"},
          e \in {Unset, "s1", "x"} :
           update_instructor(w, i, n, e)
    \/ \E w \in Workers : signup(w, "e1", FALSE)
    \/ \E w \in Workers : create_user(w)

SpecConflict == InitConflict /\ [][NextConflict]_vars

----------------------------------------------------------------------------
(* The instructor fills a course with lessons; then an enrolled student goes *)
(* through it, from the first lesson along the next lessons of the answers   *)

\* the student's first request: the lesson enroll_course redirects to (first_lesson)
\* is completed, with the handler of either app
walk_first(w, u, c) ==
    /\ resp[w] = NoResp
    /\ \E l \in first_lessons(c) :
           \/ complete_lesson(w, u, l.id)
           \/ main_complete_lesson(w, u, l.id)

\* the student follows next_lesson_url of the last answer
walk_next(w, u) ==
    /\ resp[w].status = 200
    /\ resp[w].next # Null
    /\ \/ complete_lesson(w, u, resp[w].next)
       \/ main_complete_lesson(w, u, resp[w].next)

\* the instructor adds a lesson to the course, before the student's worker v has
\* taken its first request
add_lesson(w, v, u, c, order) ==
    /\ resp[v] = NoResp /\ req[v] = Idle
    /\ create_lesson_endpoint(w, u, c, order)

InitWalk ==
    /\ now = 1
    /\ users = SeedUsers
    /\ courses = {"c1"}
    /\ lessons = {}
    /\ enrollments = {Enrollment(1, "s1", "c1")}
    /\ progress = {}
    /\ nextId = [NoIds EXCEPT !.enrollment = 1]
    /\ req = NoWork /\ resp = NoResps
    /\ arg = NoArg /\ out = NoOut /\ SeedCatalog

NextWalk ==
    \/ \E u \in Instructors, o \in Orders : add_lesson("w2", "w1", u, "c1", o)
    \/ \E u \in Learners : walk_first("w1", u, "c1")
    \/ \E u \in Learners : walk_next("w1", u)
    \/ \E w \in Sequential : create_lesson_progress_check(w)
    \/ \E w \in Sequential : create_lesson_progress_commit(w)
    \/ \E w \in Sequential : update_lesson_progress_call(w)
    \/ \E w \in Sequential : complete_lesson_finish(w)
    \/ \E w \in Sequential : main_complete_lesson_find(w)
    \/ \E w \in Sequential : main_complete_lesson_add(w)
    \/ \E w \in Sequential : main_complete_lesson_finish(w)

SpecWalk == InitWalk /\ [][NextWalk]_vars

----------------------------------------------------------------------------
(* An enrolled student's two requests, in flight at once, that complete the *)
(* two lessons of the course                                                *)

\* the handlers of POST /api/complete-lesson: the blueprint app's and that of main.py
CompleteHandlers == {"complete_lesson", "main_complete_lesson"}

\* worker w takes its one request: lesson_id is completed with the handler of the app
\* that also serves worker v, whose request is for another lesson
complete_once(w, v, u, lesson_id) ==
    /\ resp[w] = NoResp
    /\ lesson_id \notin {req[v].lesson, resp[v].req.lesson}
    /\ \/ /\ "main_complete_lesson" \notin {req[v].op, resp[v].of}
          /\ complete_lesson(w, u, lesson_id)
       \/ /\ "complete_lesson" \notin {req[v].op, resp[v].of}
          /\ main_complete_lesson(w, u, lesson_id)

NextFinish ==
    \/ \E u \in Learners, l \in {1, 2} : complete_once("w1", "w2", u, l)
    \/ \E u \in Learners, l \in {1, 2} : complete_once("w2", "w1", u, l)
    \/ \E w \in Workers : create_lesson_progress_check(w)
    \/ \E w \in Workers : create_lesson_progress_commit(w)
    \/ \E w \in Workers : update_lesson_progress_call(w)
    \/ \E w \in Workers : complete_lesson_finish(w)
    \/ \E w \in Workers : main_complete_lesson_find(w)
    \/ \E w \in Workers : main_complete_lesson_add(w)
    \/ \E w \in Workers : main_complete_lesson_finish(w)
    \/ Tick

SpecFinish == InitRace /\ [][NextFinish]_vars

----------------------------------------------------------------------------
(* Password resets: POST /api/auth/reset-password of the token API and of the *)
(* blueprint app                                                              *)

\* characters of the classes of validate_password_strength: [A-Z], [a-z], [0-9] and
\* [!@#$%^&*(),.?":{}|<>]
Uppercase == {"A", "B"}
Lowercase == {"a", "b"}
Numbers == {"1"}
Specials == {"#", "!"}

\* re.search(r'[...]', password) for a class of characters
has_char(password, class) == \E i \in 1..Len(password) : password[i] \in class

\* validate_password_strength: the error message, "" for (True, "")
validate_password_strength(password) ==
    IF Len(password) < MinPasswordLength
    THEN "Password must be at least 8 characters long"
    ELSE IF ~has_char(password, Uppercase)
    THEN "Password must include at least one uppercase letter"
    ELSE IF ~has_char(password, Lowercase)
    THEN "Password must include at least one lowercase letter"
    ELSE IF ~has_char(password, Numbers)
    THEN "Password must include at least one number"
    ELSE IF ~has_char(password, Specials)
    THEN "Password must include at least one special character"
    ELSE ""

\* the passwords of the requests: two strong ones, one that fails each rule, and the
\* empty string
Passwords ==
    {<<"A", "a", "1", "#", "a", "a", "a", "a">>,
     <<"B", "b", "1", "!", "b", "b", "b", "b">>,
     <<"A", "a", "1", "#", "a", "a", "a">>,
     <<"a", "a", "1", "#", "a", "a", "a", "a">>,
     <<"A", "A", "1", "#", "A", "A", "A", "A">>,
     <<"A", "a", "a", "#", "a", "a", "a", "a">>,
     <<"A", "a", "1", "1", "a", "a", "a", "a">>,
     <<>>}

\* a reset request, as logged in the answer
reset_request(op, email, new_password, confirm_password) ==
    [Idle EXCEPT !.op = op, !.target = email, !.new_password = new_password,
                 !.confirm_password = confirm_password]

\* user.set_password(new_password) and db.commit()
set_password(user, new_password) ==
    \E password_hash \in generate_password_hash(new_password) :
        users' = (users \ {user}) \cup {[user EXCEPT !.password_hash = password_hash]}

\* POST /api/auth/reset-password of the token API, with reset_user_password; the body
\* is a PasswordReset, whose new_password has min_length=8 (422 of the validation)
reset_password(w, email, new_password, confirm_password) ==
    /\ req[w] = Idle
    /\ UNCHANGED <<courses, lessons, enrollments, progress, nextId, now, aux>>
    /\ LET answer(status, detail) ==
               [Response("reset_password", status, detail, Null) EXCEPT
                    !.req = reset_request("reset_password", email, new_password,
                                          confirm_password)]
       IN  IF Len(new_password) < MinPasswordLength
           THEN /\ UNCHANGED users
                /\ Respond(w, answer(422, "String should have at least 8 characters"))
           ELSE IF new_password # confirm_password
           THEN /\ UNCHANGED users
                /\ Respond(w, answer(400, "Passwords do not match"))
           ELSE IF get_user_by_email(email) = {}
           THEN /\ UNCHANGED users
                /\ Respond(w, answer(404, "User with this email not found"))
           ELSE IF validate_password_strength(new_password) # ""
           THEN /\ UNCHANGED users
                /\ Respond(w, answer(400, validate_password_strength(new_password)))
           ELSE \E user \in get_user_by_email(email) :
                    /\ set_password(user, new_password)
                    /\ Respond(w, answer(200, ""))

\* POST /api/auth/reset-password of the blueprint app
api_reset_password(w, email, new_password, confirm_password) ==
    /\ req[w] = Idle
    /\ UNCHANGED <<courses, lessons, enrollments, progress, nextId, now, aux>>
    /\ LET answer(status, detail) ==
               [Response("api_reset_password", status, detail, Null) EXCEPT
                    !.req = reset_request("api_reset_password", email, new_password,
                                          confirm_password)]
       IN  IF new_password = <<>> \/ confirm_password = <<>>
           THEN /\ UNCHANGED users
                /\ Respond(w, answer(400, "Missing required fields"))
           ELSE IF new_password # confirm_password
           THEN /\ UNCHANGED users
                /\ Respond(w, answer(400, "Passwords do not match"))
           ELSE IF get_user_by_email(email) = {}
           THEN /\ UNCHANGED users
                /\ Respond(w, answer(404, "User with this email not found"))
           ELSE \E user \in get_user_by_email(email) :
                    /\ set_password(user, new_password)
                    /\ Respond(w, answer(200, ""))

InitReset ==
    /\ now = 1
    /\ users = SeedUsers
    /\ courses = {} /\ lessons = {} /\ enrollments = {} /\ progress = {}
    /\ nextId = NoIds
    /\ req = NoWork /\ resp = NoResps
    /\ arg = NoArg /\ out = NoOut /\ SeedCatalog

NextReset ==
    \/ \E w \in Sequential, e \in {"s1", "nobody"}, p \in Passwords :
           \E c \in {p, SeedPassword, <<>>} : reset_password(w, e, p, c)
    \/ \E w \in Sequential, e \in {"s1", "nobody"}, p \in Passwords :
           \E c \in {p, SeedPassword, <<>>} : api_reset_password(w, e, p, c)

SpecReset == InitReset /\ [][NextReset]_vars

----------------------------------------------------------------------------
(* A student enrolled in one of two courses, who starts and completes lessons *)
(* of both through the token API and opens the lesson page                    *)

InitForeign ==
    /\ now = 1
    /\ users = SeedUsers
    /\ courses = {"c1", "c2"}
    /\ lessons = {Lesson(1, "c1", 1), Lesson(2, "c2", 1)}
    /\ enrollments = {Enrollment(1, "s1", "c1")}
    /\ progress = {}
    /\ nextId = [NoIds EXCEPT !.lesson = 2, !.enrollment = 1]
    /\ req = NoWork /\ resp = NoResps
    /\ arg = NoArg /\ out = NoOut /\ SeedCatalog

NextForeign ==
    \/ \E w \in Sequential, u \in {"s1"}, l \in 1..2 : start_lesson(w, u, 1, l)
    \/ \E w \in Sequential : create_lesson_progress_check(w)
    \/ \E w \in Sequential : create_lesson_progress_commit(w)
    \/ \E w \in Sequential, u \in {"s1"}, p \in 1..MaxProgress, b \in BOOLEAN :
           update_lesson_progress_endpoint(w, u, p, b)
    \/ \E w \in Sequential : update_lesson_progress_call(w)
    \/ \E w \in Sequential, u \in {"s1"}, l \in 1..2 : lesson(w, u, l)
    \/ \E w \in Sequential : lesson_render(w)
    \/ Tick

SpecForeign == InitForeign /\ [][NextForeign]_vars

----------------------------------------------------------------------------
(* A student who completes a course, while the instructor adds lessons to it *)
(* and the student's progress rows are updated                               *)

\* GET /completed-courses of the blueprint app: the caller's enrollments whose
\* completed_at is not NULL, in any order
completed_courses(w, u) ==
    /\ req[w] = Idle
    /\ UNCHANGED <<store, now, aux>>
    /\ \E rows \in orderings({e \in enrollments :
                                  e.student_id = u /\ e.completed_at # Null}) :
           Respond(w, [Response("completed_courses", 200, "", Null) EXCEPT
                           !.rows = rows,
                           !.req = [Idle EXCEPT !.op = "completed_courses", !.user = u]])

InitLate ==
    /\ now = 1
    /\ users = SeedUsers
    /\ courses = {"c1"}
    /\ lessons = {Lesson(1, "c1", 1)}
    /\ enrollments = {Enrollment(1, "s1", "c1")}
    /\ progress = {}
    /\ nextId = [NoIds EXCEPT !.lesson = 1, !.enrollment = 1]
    /\ req = NoWork /\ resp = NoResps
    /\ arg = NoArg /\ out = NoOut /\ SeedCatalog

NextLate ==
    \/ \E w \in Sequential, u \in {"s1"}, l \in 1..MaxLessonRows : complete_lesson(w, u, l)
    \/ \E w \in Sequential : create_lesson_progress_check(w)
    \/ \E w \in Sequential : create_lesson_progress_commit(w)
    \/ \E w \in Sequential : update_lesson_progress_call(w)
    \/ \E w \in Sequential : complete_lesson_finish(w)
    \/ \E w \in Sequential, u \in Instructors : create_lesson_endpoint(w, u, "c1", 2)
    \/ \E w \in Sequential, u \in {"s1"}, p \in 1..MaxProgress, b \in BOOLEAN :
           update_lesson_progress_endpoint(w, u, p, b)
    \/ \E w \in Sequential, u \in {"s1"} : completed_courses(w, u)
    \/ Tick

SpecLate == InitLate /\ [][NextLate]_vars

----------------------------------------------------------------------------
(* Several tokens of one user: logins at different ticks, and requests that   *)
(* bear a token issued by one of them.  The clock runs on past MaxTime until  *)
(* the tokens issued up to MaxTime have expired.                              *)

\* get_current_user of a request that bears token: 0 when the token verifies and
\* its user is found and active, else the status of the HTTPException raised
get_current_user_bearing(token) ==
    IF verify_token(token) # 0 THEN 401 ELSE get_current_user(token.sub)

\* the detail of that HTTPException
bearing_detail(token) ==
    IF verify_token(token) # 0 THEN "Could not validate credentials"
    ELSE credentials_detail(token.sub)

\* the request as logged in the answer
bearing_request(op, token) ==
    [Idle EXCEPT !.op = op, !.user = token.sub, !.token = token]

\* the tokens the clients hold: those issued by the logins answered last and those
\* borne by the requests answered last
held_tokens ==
    ({resp[w].token : w \in Workers} \cup {resp[w].req.token : w \in Workers}) \ {NoToken}

\* POST /api/auth/logout with Authorization: Bearer token
logout_bearing(w, token) ==
    /\ req[w] = Idle
    /\ UNCHANGED <<courses, lessons, enrollments, progress, nextId, now, aux>>
    /\ IF get_current_user_bearing(token) # 0
       THEN /\ UNCHANGED users
            /\ Respond(w, [Response("logout", get_current_user_bearing(token),
                                    bearing_detail(token), Null)
                               EXCEPT !.req = bearing_request("logout", token)])
       ELSE /\ deactivate_user(token.sub)
            /\ Respond(w, [Response("logout", 200, "Logged out successfully", Null)
                               EXCEPT !.req = bearing_request("logout", token)])

\* GET /api/auth/me with Authorization: Bearer token
profile_bearing(w, token) ==
    /\ req[w] = Idle
    /\ UNCHANGED <<store, now, aux>>
    /\ Respond(w, [Response("get_current_user_profile",
                            IF get_current_user_bearing(token) # 0
                            THEN get_current_user_bearing(token) ELSE 200,
                            IF get_current_user_bearing(token) # 0
                            THEN bearing_detail(token) ELSE "",
                            Null)
                       EXCEPT !.req = bearing_request("get_current_user_profile", token)])

InitTokens ==
    /\ now = 1
    /\ users = SeedUsers
    /\ courses = {"c1"}
    /\ lessons = {}
    /\ enrollments = {}
    /\ progress = {}
    /\ nextId = NoIds
    /\ req = NoWork /\ resp = NoResps
    /\ arg = NoArg /\ out = NoOut /\ SeedCatalog

NextTokens ==
    \/ \E w \in Workers, e \in Students, ok \in BOOLEAN : login(w, e, ok)
    \/ \E w \in Workers, token \in held_tokens : logout_bearing(w, token)
    \/ \E w \in Workers, token \in held_tokens : profile_bearing(w, token)
    \/ Tick
    \/ /\ now >= MaxTime /\ now <= MaxTime + TokenLife
       /\ now' = now + 1
       /\ UNCHANGED <<store, req, resp, aux>>

SpecTokens == InitTokens /\ [][NextTokens]_vars

----------------------------------------------------------------------------
(* Two courses with lessons, enrollments and progress rows, and the requests *)
(* that delete them.  The progress row 4 is of a lesson of the other course, *)
(* as start_lesson makes it.                                                 *)

\* callers of the token API: the students, the instructor and the admin
Callers == Students \cup Instructors \cup Admins

InitCascade ==
    /\ now = 1
    /\ users = SeedUsers
    /\ courses = {"c1", "c2"}
    /\ lessons = {Lesson(1, "c1", 1), Lesson(2, "c2", 1)}
    /\ enrollments = {Enrollment(1, "s1", "c1"), Enrollment(2, "s2", "c1"),
                      Enrollment(3, "s1", "c2")}
    /\ progress = {LessonProgress(1, 1, 1, FALSE), LessonProgress(2, 2, 1, FALSE),
                   LessonProgress(3, 3, 2, FALSE), LessonProgress(4, 1, 2, FALSE)}
    /\ nextId = [NoIds EXCEPT !.lesson = 2, !.enrollment = 3, !.progress = 4]
    /\ req = NoWork /\ resp = NoResps
    /\ arg = NoArg /\ out = NoOut /\ SeedCatalog

NextCascade ==
    \/ \E w \in Workers, u \in Callers, e \in 1..(MaxEnrollments + 1) :
           unenroll_from_course(w, u, e)
    \/ \E w \in Workers, u \in Callers, c \in {"c1", "c2", "c0"} :
           delete_course_endpoint(w, u, c)

SpecCascade == InitCascade /\ [][NextCascade]_vars

----------------------------------------------------------------------------
(* The progress computation as a function of its two inputs *)

InitPercent ==
    /\ users = {} /\ courses = {} /\ lessons = {} /\ enrollments = {} /\ progress = {}
    /\ nextId = NoIds /\ now = 1
    /\ req = NoWork /\ resp = NoResps
    /\ arg \in {[completed_count |-> k, total_lessons |-> n] :
                    k \in 0..MaxLessons, n \in 0..MaxLessons}
    /\ arg.completed_count <= arg.total_lessons
    /\ out = NoOut
    /\ SeedCatalog

\* lesson(): "Calculate progress percentage"
ComputePercent ==
    /\ ~out.done
    /\ out' = [done |-> TRUE,
               progress_percent |-> progress_percent(arg.completed_count, arg.total_lessons)]
    /\ UNCHANGED <<store, now, req, resp, arg, files, catalog>>

NextPercent == ComputePercent

SpecPercent == InitPercent /\ [][NextPercent]_vars

----------------------------------------------------------------------------
(* Properties of the enrollment ledger, checked under SpecEnroll *)

\* C1: for every (student, course) pair, two concurrent enroll requests leave one
\* Enrollment row: no interleaving of their check and insert steps produces a
\* second row for the pair.  Refuted: nothing in the store rejects the second insert.
C1_OneEnrollmentPerPair ==
    \A u \in Students, c \in CourseIds : Cardinality(enrollments_of(u, c)) <= 1

\* C2: create_enrollment called when an Enrollment row of the pair exists raises the
\* domain error at its pre-check (400 with that detail from the JSON API), never goes
\* on to the insert, and leaves table enrollments as it was.
C2_DuplicateEnrollFails ==
    [][\A w \in Workers :
          (/\ req[w].pc = "ce_check"
           /\ req'[w] # req[w]
           /\ enrollments_of(req[w].user, req[w].course) # {})
          => /\ enrollments' = enrollments
             /\ req'[w] = Idle
             /\ req[w].op = "enroll_in_course"
                    => resp'[w].status = 400 /\ resp'[w].detail = AlreadyEnrolled]_vars

\* a duplicate enroll request has been answered 400 and the pair still has its one row
C2_Witness ==
    \E w \in Workers :
        /\ resp[w].of = "enroll_in_course"
        /\ resp[w].status = 400
        /\ resp[w].detail = AlreadyEnrolled
        /\ Cardinality(enrollments_of(resp[w].req.user, resp[w].req.course)) = 1

----------------------------------------------------------------------------
(* Properties of the progress tracker *)

\* C3: in every reachable state there is at most one LessonProgress row per
\* (enrollment, lesson) pair, whatever the interleaving of concurrent start-lesson,
\* lesson-view and complete-lesson requests.  Refuted under SpecRace.
C3_OneProgressPerPair ==
    \A e \in enrollments, l \in lessons :
        Cardinality(get_progress_by_enrollment_and_lesson(e.id, l.id)) <= 1

C5_PercentIsFloor ==
    out.done =>
        out.progress_percent =
            IF arg.total_lessons > 0
            THEN (100 * arg.completed_count) \div arg.total_lessons
            ELSE 0

\* a complete-lesson request of worker w has just been answered
completed_a_lesson(w) ==
    /\ req[w] = Idle
    /\ resp[w].of \in {"complete_lesson", "main_complete_lesson"}
    /\ resp[w].status = 200

\* C6: whenever a complete-lesson request finishes with every lesson of the course
\* completed for the enrollment, the enrollment's completed_at is non-null, in
\* whatever order the lessons were completed.  Refuted under SpecProgress.
C6_AllCompleteSetsCompletedAt ==
    \A w \in Sequential :
        (completed_a_lesson(w) /\ all_complete(resp[w].req.enr, resp[w].req.course))
        => \A e \in get_enrollment_by_id(resp[w].req.enr) : e.completed_at # Null

\* C7: the course_completed flag of a complete-lesson answer is true exactly when,
\* after the request, every lesson of the course has a completed row of the caller's
\* enrollment.  Refuted under SpecProgress.
C7_FlagIffAllComplete ==
    \A w \in Sequential :
        completed_a_lesson(w)
        => (resp[w].flag <=> all_complete(resp[w].req.enr, resp[w].req.course))

\* C8: once an enrollment's completed_at is non-null, no later complete_enrollment
\* call and no later complete-lesson request changes it.  Refuted under SpecClock.
C8_CompletedAtSetOnce ==
    [][\A e \in enrollments, f \in enrollments' :
          f.id = e.id /\ e.completed_at # Null => f.completed_at = e.completed_at]_vars

----------------------------------------------------------------------------
(* Properties of lesson management and of access control *)

\* the rows of a list, as a set
rows_of(f) == {f[i] : i \in 1..Len(f)}

\* C9: the list answered by get_course_lessons holds exactly the lessons of the
\* course, each once, in ascending order of their order field, whatever the order in
\* which they were created or re-ordered.
C9_ListSortedByOrder ==
    \A w \in Sequential :
        resp[w].of = "get_course_lessons"
        => LET f == resp[w].rows
           IN  /\ rows_of(f) = lessons_of(resp[w].req.course)
               /\ Len(f) = Cardinality(lessons_of(resp[w].req.course))
               /\ \A i, j \in 1..Len(f) : i < j => f[i].order <= f[j].order

\* a list of a course whose later-created lesson comes first, by its smaller order,
\* while the other course has lessons too
C9_Witness ==
    \E w \in Sequential :
        /\ resp[w].of = "get_course_lessons"
        /\ Len(resp[w].rows) >= 2
        /\ resp[w].rows[1].id > resp[w].rows[2].id
        /\ resp[w].rows[1].order < resp[w].rows[2].order
        /\ \E l \in lessons : l.course_id # resp[w].req.course

\* the caller of an answered request is a student
by_student(r) == \E u \in get_user_by_id(r.req.user) : u.role = STUDENT

\* C10: a student's request to update the profile of another user, or to delete an
\* enrollment of another student, is answered 403 and changes neither table users
\* nor tables enrollments and lesson_progress.
C10_StudentsCannotTouchOthers ==
    [][\A w \in Workers :
          /\ (/\ resp'[w] # resp[w]
              /\ resp'[w].of \in {"update_student", "update_student_profile"}
              /\ by_student(resp'[w])
              /\ resp'[w].req.target # resp'[w].req.user)
             => resp'[w].status = 403 /\ users' = users
          /\ (/\ resp'[w] # resp[w]
              /\ resp'[w].of = "unenroll_from_course"
              /\ by_student(resp'[w])
              /\ \E e \in get_enrollment_by_id(resp'[w].req.enr) :
                     e.student_id # resp'[w].req.user)
             => /\ resp'[w].status = 403
                /\ enrollments' = enrollments
                /\ progress' = progress]_vars

\* one student has been refused the other's profile and the other's enrollment, and
\* both are as they were
C10_Witness ==
    \E w, x \in Workers :
        /\ resp[w].of \in {"update_student", "update_student_profile"}
        /\ resp[w].status = 403
        /\ resp[w].req.user = "s1" /\ resp[w].req.target = "s2"
        /\ resp[x].of = "unenroll_from_course"
        /\ resp[x].status = 403
        /\ resp[x].req.user = "s1"
        /\ \E e \in get_enrollment_by_id(resp[x].req.enr) : e.student_id = "s2"
        /\ \E u \in get_user_by_id("s2") : u.full_name = "a"

\* C11: a DELETE of an enrollment by an authenticated caller removes the enrollment
\* exactly when the caller is the student of the enrollment or an admin (204); any
\* other caller is answered 403 and the enrollment is still there; an id that names
\* no enrollment is answered 404.
C11_UnenrollOwnerOrAdmin ==
    [][\A w \in Workers :
          (/\ resp'[w] # resp[w]
           /\ resp'[w].of = "unenroll_from_course"
           /\ get_current_user(resp'[w].req.user) = 0)
          => LET r == resp'[w]
                 named == {e \in enrollments : e.id = r.req.enr}
             IN  IF named = {}
                 THEN r.status = 404 /\ enrollments' = enrollments
                 ELSE \A e \in named, c \in {x \in users : x.id = r.req.user} :
                          IF e.student_id = c.id \/ c.role = ADMIN
                          THEN r.status = 204 /\ e \notin enrollments'
                          ELSE /\ r.status = 403
                               /\ e \in enrollments'
                               /\ enrollments' = enrollments]_vars

\* the admin has deleted a student's enrollment and the instructor has been refused
\* another one, which is still there
C11_Witness ==
    \E w, x \in Workers :
        /\ resp[w].of = "unenroll_from_course"
        /\ resp[w].status = 204
        /\ resp[w].req.user = "adm"
        /\ get_enrollment_by_id(resp[w].req.enr) = {}
        /\ resp[x].of = "unenroll_from_course"
        /\ resp[x].status = 403
        /\ resp[x].req.user = "ins"
        /\ get_enrollment_by_id(resp[x].req.enr) # {}

\* C12: no two rows of table users have the same e-mail address, and every answer to
\* a signup with matching passwords is a success that inserted the one row of that
\* address if the address was free, and otherwise a 400 that left table users as
\* it was.
C12_SignupOnceThenConflict ==
    /\ [](\A u, v \in users : u.email = v.email => u = v)
    /\ [][\A w \in Workers :
             (/\ resp'[w] # resp[w]
              /\ resp'[w].req.op \in {"signup", "student_sign_up"})
             => IF get_user_by_email(resp'[w].req.target) = {}
                THEN /\ resp'[w].status \in {200, 201}
                     /\ \E u \in users' : /\ u.email = resp'[w].req.target
                                           /\ users' = users \cup {u}
                ELSE /\ resp'[w].status = 400
                     /\ users' = users]_vars

\* C13: every answer to an upload of a profile photo whose size is over the 5 MB
\* limit or whose type is not in the allow-list is a 400, and the step has left the
\* upload folder and table users as they were.
C13_BadUploadRejected ==
    [][\A w \in Workers :
          (/\ resp'[w] # resp[w]
           /\ resp'[w].req.op \in {"upload_profile_photo", "student_upload_profile_photo"}
           /\ get_current_user(resp'[w].req.user) = 0
           /\ \/ resp'[w].req.total > 5
              \/ resp'[w].req.target \notin {"jpeg", "jpg", "png", "webp"})
          => /\ resp'[w].status = 400
             /\ files' = files
             /\ users' = users]_vars

\* C14: no step takes a row of lesson_progress from is_completed = true back to
\* is_completed = false.
C14_CompletedIsTerminal ==
    [][\A p \in progress, q \in progress' :
          (q.id = p.id /\ p.is_completed) => q.is_completed]_vars

\* the requests of the token API that pass through get_current_user
authenticated(r) ==
    r.of \in {"logout", "get_current_user_profile", "delete_student", "update_student",
              "unenroll_from_course"}

\* C15: the token API decides on the user row as it is when the request arrives: a
\* request whose user row is gone is answered 401, a request of a user with
\* is_active = false is answered 403 "Inactive user", and both change nothing; a
\* successful logout leaves its user with is_active = false; and only a successful
\* login takes a user from is_active = false to is_active = true.
C15_InactiveUntilLogin ==
    [][/\ \A w \in Workers :
             (resp'[w] # resp[w] /\ authenticated(resp'[w]))
             => /\ get_user_by_id(resp'[w].req.user) = {}
                   => /\ resp'[w].status = 401
                      /\ <<store, files>>' = <<store, files>>
                /\ (\E u \in get_user_by_id(resp'[w].req.user) : ~u.is_active)
                   => /\ resp'[w].status = 403
                      /\ resp'[w].detail = "Inactive user"
                      /\ <<store, files>>' = <<store, files>>
                /\ (resp'[w].of = "logout" /\ resp'[w].status = 200)
                   => \A u \in users' : u.id = resp'[w].req.user => ~u.is_active
       /\ \A u \in users, v \in users' :
             (v.id = u.id /\ ~u.is_active /\ v.is_active)
             => \E w \in Workers : /\ resp'[w] # resp[w]
                                   /\ resp'[w].of = "login"
                                   /\ resp'[w].status = 200
                                   /\ resp'[w].req.user = v.id]_vars

\* a request of a logged-out student has just been refused as inactive, after the
\* other student deleted their account
C15_Witness ==
    \E w \in Workers :
        /\ authenticated(resp[w])
        /\ resp[w].of # "logout"
        /\ resp[w].status = 403
        /\ resp[w].detail = "Inactive user"
        /\ \E u \in get_user_by_id(resp[w].req.user) : ~u.is_active /\ u.last_login # Null
        /\ \E s \in Students : get_user_by_id(s) = {}

\* the requests that create, update or delete a category, a course or a lesson
on_catalog(r) ==
    r.of \in {"create_category_endpoint", "update_category_endpoint",
              "delete_category_endpoint", "create_course_endpoint",
              "update_course_endpoint", "delete_course_endpoint",
              "create_lesson_endpoint", "update_lesson_endpoint",
              "delete_lesson_endpoint"}

\* C16: no request of an instructor or an admin that creates, updates or deletes a
\* category, a course or a lesson is answered 403, and every such request of a
\* student is answered 403 and leaves categories, courses and lessons as they were.
C16_StaffMayEditCatalog ==
    [][\A w \in Workers :
          (resp'[w] # resp[w] /\ on_catalog(resp'[w]))
          => \A u \in get_user_by_id(resp'[w].req.user) :
                 /\ u.role \in {INSTRUCTOR, ADMIN} => resp'[w].status # 403
                 /\ u.role = STUDENT
                    => /\ resp'[w].status = 403
                       /\ <<categories, courses, columns, lessons>>'
                              = <<categories, courses, columns, lessons>>]_vars

\* the lessons and the enrollments of course c
of_course(rows, c) == {r \in rows : r.course_id = c}

\* the progress rows of a lesson or of an enrollment of course c
progress_of_course(c) ==
    {p \in progress :
         \/ \E l \in of_course(lessons, c) : l.id = p.lesson_id
         \/ \E e \in of_course(enrollments, c) : e.id = p.enrollment_id}

\* C17: a DELETE of course c answered 204 leaves no lesson and no enrollment of c and
\* no progress row of one of them, and leaves all other lessons, enrollments and
\* progress rows as they were.
C17_DeleteCourseCascades ==
    [][\A w \in Workers :
          (/\ resp'[w] # resp[w]
           /\ resp'[w].of = "delete_course_endpoint"
           /\ resp'[w].status = 204)
          => LET c == resp'[w].req.target
             IN  /\ c \notin courses'
                 /\ lessons' = lessons \ of_course(lessons, c)
                 /\ enrollments' = enrollments \ of_course(enrollments, c)
                 /\ progress' = progress \ progress_of_course(c)]_vars

\* course c2 has been deleted with its lesson, its enrollment and the two progress
\* rows of its lesson, and course c1 still has its lesson, enrollments and progress
C17_Witness ==
    \E w \in Workers :
        /\ resp[w].of = "delete_course_endpoint"
        /\ resp[w].status = 204
        /\ resp[w].req.target = "c2"
        /\ of_course(lessons, "c2") = {} /\ of_course(enrollments, "c2") = {}
        /\ {p.id : p \in progress} = {1, 2}
        /\ {e.id : e \in enrollments} = {1, 2}
        /\ {l.id : l \in lessons} = {1}

\* C18: a DELETE of enrollment e answered 204 removes e and exactly the progress
\* rows of e; every other enrollment, every progress row of another enrollment, and
\* all lessons stay as they were.
C18_UnenrollCascades ==
    [][\A w \in Workers :
          (/\ resp'[w] # resp[w]
           /\ resp'[w].of = "unenroll_from_course"
           /\ resp'[w].status = 204)
          => LET e == resp'[w].req.enr
             IN  /\ \A p \in progress' : p.enrollment_id # e
                 /\ progress' = {p \in progress : p.enrollment_id # e}
                 /\ enrollments' = {x \in enrollments : x.id # e}
                 /\ lessons' = lessons]_vars

\* student s1 has left course c1: the enrollment and its two progress rows are gone,
\* while the enrollment of s2 in the same course and s1's own enrollment in c2 still
\* have theirs
C18_Witness ==
    \E w \in Workers :
        /\ resp[w].of = "unenroll_from_course"
        /\ resp[w].status = 204
        /\ resp[w].req.enr = 1
        /\ resp[w].req.user = "s1"
        /\ {e.id : e \in enrollments} = {2, 3}
        /\ {p.id : p \in progress} = {2, 3}

\* C19: a PUT of a course answered 200 leaves every column whose field the body does
\* not set as it was and gives every column whose field the body sets the value of
\* the body; a PUT of a lesson answered 200 does the same for the lesson's order and
\* keeps the lesson in its course.
C19_UpdateIsMergePatch ==
    [][\A w \in Workers :
          /\ (/\ resp'[w] # resp[w]
              /\ resp'[w].of = "update_course_endpoint"
              /\ resp'[w].status = 200)
             => LET c == resp'[w].req.target
                    body == resp'[w].req.patch
                    set(old, value) == IF value = Unset THEN old ELSE value
                IN  /\ columns'[c].title = set(columns[c].title, body.title)
                    /\ columns'[c].slug = set(columns[c].slug, body.slug)
                    /\ columns'[c].description = set(columns[c].description, body.description)
                    /\ columns'[c].instructor_id = columns[c].instructor_id
                    /\ columns'[c].category_id = columns[c].category_id
                    /\ \A d \in courses \ {c} : columns'[d] = columns[d]
          /\ (/\ resp'[w] # resp[w]
              /\ resp'[w].of = "update_lesson_endpoint"
              /\ resp'[w].status = 200)
             => \A l \in lessons :
                    IF l.id = resp'[w].req.lesson /\ resp'[w].req.order # Null
                    THEN [l EXCEPT !.order = resp'[w].req.order] \in lessons'
                    ELSE l \in lessons']_vars

\* the outcome r of worker w's step is that of a create or update whose row has the
\* e-mail address, name or slug of another row of its table
hits_unique(w, r) ==
    \/ /\ req[w].pc = "su_insert"
       /\ get_user_by_email(req[w].target) # {}
    \/ /\ r.of = "update_instructor"
       /\ get_instructor_by_id(r.req.user) # {}
       /\ \E u \in users : u.id # r.req.user /\ u.email = r.req.target
    \/ /\ r.of = "create_category_endpoint"
       /\ r.status \notin {401, 403}
       /\ \E c \in categories : c.name = r.req.patch.name \/ c.slug = r.req.patch.slug
    \/ /\ r.of = "update_category_endpoint"
       /\ r.status \notin {401, 403}
       /\ get_category_by_id(r.id) # {}
       /\ \E c \in categories :
              c.id # r.id /\ (c.name = r.req.patch.name \/ c.slug = r.req.patch.slug)
    \/ /\ r.of = "create_course_endpoint"
       /\ r.status \notin {401, 403}
       /\ \E c \in courses : columns[c].slug = r.req.patch.slug
    \/ /\ r.of = "update_course_endpoint"
       /\ r.status \notin {401, 403}
       /\ r.req.target \in courses
       /\ \E c \in courses \ {r.req.target} : columns[c].slug = r.req.patch.slug

\* C20: a create or update of a user, a category or a course whose commit runs into a
\* unique index (users.email, categories.name, categories.slug, courses.slug) ends in
\* the ValueError that is answered with 400, never in the raw IntegrityError, and
\* leaves the rows of users, categories and courses as they were.
C20_ConflictIsValueError ==
    [][\A w \in Workers :
          (resp'[w] # resp[w] /\ hits_unique(w, resp'[w]))
              => /\ resp'[w].status = 400
                 /\ resp'[w].detail # "IntegrityError"
                 /\ UNCHANGED <<users, categories, courses, columns>>]_vars

\* C21: every lesson_progress row whose is_completed is true has a completed_at,
\* whether update_lesson_progress or one of the two complete-lesson handlers made
\* it completed.
C21_CompletedHasCompletedAt ==
    \A p \in progress : p.is_completed => p.completed_at # Null

\* C22: no two distinct lessons of one course have the same order, after any sequence
\* of create_lesson and update_lesson calls.
C22_OrderIsTotalInCourse ==
    \A l \in lessons : \A m \in lessons :
        (l.id # m.id /\ l.course_id = m.course_id) => l.order # m.order

\* the enrollment has a completed progress row of the lesson
visited(enrollment_id, lesson_id) ==
    \E p \in get_progress_by_enrollment_and_lesson(enrollment_id, lesson_id) : p.is_completed

\* C23: a student who starts at the first lesson of a course and follows the next
\* lesson of each complete-lesson answer is never sent to a lesson already visited, and
\* when an answer names no next lesson every lesson of the course has been visited.
C23_WalkVisitsEveryLesson ==
    \A w \in Workers :
        (resp[w].of \in {"complete_lesson", "main_complete_lesson"} /\ resp[w].status = 200)
            => IF resp[w].next = Null
               THEN \A l \in lessons_of(resp[w].req.course) : visited(resp[w].id, l.id)
               ELSE ~visited(resp[w].id, resp[w].next)

\* C24: when the two concurrent complete-lesson requests for the two lessons of the
\* course, both incomplete before, have been answered, neither answer is an error and
\* the enrollment has a completed_at.
C24_LastTwoCompleteTheCourse ==
    (\A w \in Workers : req[w] = Idle /\ resp[w].of \in CompleteHandlers)
        => /\ \A w \in Workers : resp[w].status = 200
           /\ \A e \in get_enrollment_by_id(1) : e.completed_at # Null

\* the rows of table lesson_progress of a pair of enrollment and lesson
rows_of_pair(enrollment_id, lesson_id) ==
    {p \in progress : p.enrollment_id = enrollment_id /\ p.lesson_id = lesson_id}

\* C25: a call of create_lesson_progress for a pair that has a row returns that row
\* and leaves table lesson_progress as it is, so that is_completed, started_at,
\* completed_at and last_accessed of the row are unchanged; a call for a pair with no
\* row at its lookup inserts exactly one row, of that pair and with is_completed false,
\* and returns it (or fails on a missing enrollment or lesson and inserts nothing).
C25_StartIsLookupOrCreate ==
    [][\A w \in Workers :
          LET existing == rows_of_pair(req[w].enr, req[w].lesson)
              returned == IF req'[w] = Idle THEN resp'[w].id ELSE req'[w].prog
          IN  /\ (req[w].pc = "clp_check" /\ req'[w] # req[w] /\ existing # {})
                  => /\ progress' = progress
                     /\ returned \in {p.id : p \in existing}
              /\ (req[w].pc = "clp_check" /\ req'[w] # req[w] /\ existing = {})
                  => /\ progress' = progress
                     /\ req'[w].pc = "clp_insert"
              /\ (req[w].pc = "clp_insert" /\ req'[w] # req[w])
                  => \/ progress' = progress /\ req'[w] = Idle /\ resp'[w].status >= 400
                     \/ \E p \in progress' \ progress :
                            /\ progress' = progress \cup {p}
                            /\ p.enrollment_id = req[w].enr
                            /\ p.lesson_id = req[w].lesson
                            /\ ~p.is_completed
                            /\ returned = p.id]_vars

\* POST /api/lesson-progress for a lesson the student has completed has been answered
\* with the completed row, and the pair still has that one row
C25_Witness ==
    \E w \in Workers : \E p \in progress :
        /\ resp[w].of = "start_lesson"
        /\ resp[w].status = 201
        /\ resp[w].id = p.id
        /\ p.is_completed
        /\ p.completed_at # Null
        /\ rows_of_pair(p.enrollment_id, p.lesson_id) = {p}

\* C26: a password reset whose new_password and confirm_password differ, or whose
\* new password fails the strength rules, is answered 400 and changes no user row
\* (404 will also do when the e-mail address names no user); a reset for an e-mail
\* address that names no user is answered 404 and changes no user row.
C26_RejectedResetKeepsPassword ==
    [][\A w \in Workers :
          (resp'[w] # resp[w] /\ resp'[w].of \in {"reset_password", "api_reset_password"})
              => LET r == resp'[w].req
                     rejected == \/ r.new_password # r.confirm_password
                                 \/ validate_password_strength(r.new_password) # ""
                     no_user == get_user_by_email(r.target) = {}
                 IN  /\ (rejected /\ ~no_user) => (resp'[w].status = 400 /\ users' = users)
                     /\ (rejected /\ no_user)
                            => (resp'[w].status \in {400, 404} /\ users' = users)
                     /\ (~rejected /\ no_user)
                            => (resp'[w].status = 404 /\ users' = users)]_vars

\* C27: every lesson_progress row is of a lesson of its enrollment's course, and the
\* lesson page shows no more completed lessons than the course has and a progress
\* percentage from 0 to 100.
C27_ProgressStaysInCourse ==
    /\ \A p \in progress :
           \A e \in get_enrollment_by_id(p.enrollment_id) :
               \A l \in get_lesson_by_id(p.lesson_id) : l.course_id = e.course_id
    /\ \A w \in Workers :
           (resp[w].of = "lesson" /\ resp[w].status = 200 /\ resp[w].detail = "")
               => /\ resp[w].id <= resp[w].req.total
                  /\ resp[w].percent \in 0..100

\* C28: an enrollment with a completed_at, which the completed-courses page lists, has
\* a completed progress row for every lesson that its course has now.
C28_CompletedMeansAllLessons ==
    \A e \in enrollments :
        e.completed_at # Null
            => \A l \in lessons :
                   l.course_id = e.course_id
                       => \E p \in progress :
                              /\ p.enrollment_id = e.id
                              /\ p.lesson_id = l.id
                              /\ p.is_completed

\* C29: after every outcome of a profile-photo upload the profile_image of every user
\* is NULL or names a file of the upload folder.
C29_PhotoFileExists ==
    \A u \in users : u.profile_image # NoPhoto => u.profile_image.file \in files

\* a step in which worker w answers a request of handler op with 200
answers_ok(w, op) ==
    /\ resp'[w] # resp[w]
    /\ resp'[w].of = op
    /\ resp'[w].status = 200

\* C30: the credentials of a user are independent.  A logout bearing one token of a
\* user leaves every other unexpired token that a login issued to that user accepted,
\* and a login of a user leaves every token that was borne by a successful logout of
\* that user rejected.
C30_TokensAreIndependent ==
    [][\A w \in Workers : \A v \in Workers \ {w} :
           /\ (/\ answers_ok(w, "logout")
               /\ resp[v].of = "login" /\ resp[v].status = 200
               /\ resp[v].token.sub = resp'[w].req.token.sub
               /\ resp[v].token # resp'[w].req.token
               /\ verify_token(resp[v].token) = 0)
                  => get_current_user_bearing(resp[v].token)' = 0
           /\ (/\ answers_ok(w, "login")
               /\ resp[v].of = "logout" /\ resp[v].status = 200
               /\ resp[v].req.token.sub = resp'[w].req.user)
                  => get_current_user_bearing(resp[v].req.token)' # 0]_vars

====
